---- MODULE Spec2Model ----
(***************************************************************************)
(* A model of arngit's control layer: the account vault (AccountManager),  *)
(* the protected-repository registry (ProtectedRepoManager) together with  *)
(* the protect / unprotect / push command handlers, the token cipher, the  *)
(* auto-push Watcher, and the two managers as goroutines share them.       *)
(* Every definition is translated from the Go source.                      *)
(*                                                                         *)
(* Strings the code computes with are sequences: a password is the         *)
(* sequence of its ASCII code points, any other string the sequence of its  *)
(* characters, and a path the sequence of its components ("/a/b" is        *)
(* <<<<"a">>, <<"b">>>>).                                                  *)
(***************************************************************************)
EXTENDS Integers, Sequences, FiniteSets, TLC

\* ------------------------------------------------------------------ bounds
MaxGuards == 2      \* Guards the registry holds at once
MaxFaults == 1      \* injected file-system write/remove failures per run
MaxPolls  == 3      \* polls a watch session is followed for
MaxCount  == 3      \* largest pending-commit count a poll observes
MaxTicks  == 3      \* ticker periods a watch session is followed for
NonceSize == 2      \* gcm.NonceSize(): bytes of a nonce, scaled down (GCM: 12)
TagSize   == 2      \* gcm.Overhead(): bytes of a tag, scaled down (GCM: 16)
MaxGoroutines == 2  \* goroutines calling one ProtectedRepoManager at a time

VARIABLES
    \* AccountManager (vault)
    accounts,       \* am.accounts: name -> Account (its IsDefault flag)
    current,        \* am.current ("" = none)
    files,          \* the accounts directory: name -> <name>.json content
    vlast,          \* the last vault call and what it returned
    \* ProtectedRepoManager (registry)
    repos,          \* pm.repos: canonical path -> ProtectedRepo
    doc,            \* the persisted registry document
    rlast,          \* the last registry / handler call and what it returned
    \* injected I/O failures still available
    faults,
    \* cipher
    machine,        \* the machine the process runs on: hostname, home directory
    cx,             \* the last encrypt / decrypt call: its text, token and result
    \* Watcher
    wcfg,           \* thresholdType, thresholdValue, interval
    wenv,           \* the working directory, the origin remote's URL and the
                    \* arguments of the watch command (<<>> = built by NewWatcher alone)
    wpc,            \* where Start is: "new" (not begun), "select", "parked" (blocked
                    \* in the select), "tick" / "done" (the case taken), "pushing"
                    \* (gitSvc.Push in flight), "returned"
    cancelSet,      \* w.cancel != nil
    ctxDone,        \* w.ctx is cancelled
    tickReady,      \* ticker.C holds a tick
    clock,          \* time.Now(), in milliseconds since NewWatcher
    lastPushTime,   \* w.lastPushTime, on the same scale
    pollLog,        \* per evaluated poll: the count observed, whether w.push() ran
    wlast,          \* the last evaluated poll: callback fired, blocked, after Stop
    stoppedEarly,   \* history: a Stop() call came before any tick fired
    \* goroutines sharing one ProtectedRepoManager
    mu,             \* pm.mu: the goroutine holding the write lock (0 = none) and
                    \* the goroutines holding read locks
    thr,            \* per goroutine: the registry call it is in and how far it got
    \* goroutines sharing one AccountManager
    gor,            \* per goroutine: the vault call it is in, its locals, its result
    before,         \* history: the vault as it was before the calls began
    \* ParseSize called alone
    sz              \* the last call: its argument and the int64 it returned

vaultVars == <<accounts, current, files, vlast>>
regVars == <<repos, doc, rlast>>
cipherVars == <<machine, cx>>
lockVars == <<mu, thr>>
raceVars == <<gor, before>>
sizeVars == <<sz>>
watchVars == <<wcfg, wenv, wpc, cancelSet, ctxDone, tickReady, clock, lastPushTime,
               pollLog, wlast, stoppedEarly>>

\* ------------------------------------------------------------ passwords
\* ASCII code points of the passwords the handlers are fed.
PwEmpty  == <<>>
PwSecret == <<115, 101, 99, 114, 101, 116>>     \* "secret"
PwWrong  == <<119, 114, 111, 110, 103>>         \* "wrong"
PwShort  == <<112, 119>>                        \* "pw"
Passwords == {PwEmpty, PwSecret, PwWrong, PwShort}

\* A uint64 is four 16-bit limbs, least significant first.
Limb == 2^16
Zero64 == <<0, 0, 0, 0>>

RECURSIVE MulAdd64(_, _, _, _)
\* limbs of (h * m + carry) % 2^64, from limb k on
MulAdd64(h, m, carry, k) ==
    IF k > Len(h) THEN <<>>
    ELSE LET t == h[k] * m + carry
         IN  <<t % Limb>> \o MulAdd64(h, m, t \div Limb, k + 1)

RuneError == 65533          \* U+FFFD, what string(rune(x)) yields for an invalid x
MaxRune == 1114111          \* U+10FFFF
SurrogateMin == 55296       \* U+D800
SurrogateMax == 57343       \* U+DFFF

\* string(rune(hash)): rune is int32, so the conversion keeps the low 32 bits
\* (as a signed value); string() of a rune outside the valid Unicode range is
\* "�".  The one-rune result is the sequence of its code point.
RuneString(h) ==
    LET neg == h[2] >= Limb \div 2
        r == h[2] * Limb + h[1]
    IN  IF neg THEN <<RuneError>>
        ELSE IF r > MaxRune \/ (r >= SurrogateMin /\ r <= SurrogateMax)
             THEN <<RuneError>>
             ELSE <<r>>

RECURSIVE HashLoop(_, _, _)
\* for i, c := range password { hash = hash*31 + uint64(c) + uint64(i) }
\* (i is the byte offset: the index, for ASCII)
HashLoop(password, i, hash) ==
    IF i > Len(password) THEN hash
    ELSE HashLoop(password, i + 1, MulAdd64(hash, 31, password[i] + (i - 1), 1))

\* hashPassword: the one-rune string of the accumulated hash
hashPassword(password) == RuneString(HashLoop(password, 1, Zero64))

verifyPassword(password, hash) == hashPassword(password) = hash

\* ---------------------------------------------------------------- paths
Dot == <<".">>
DotDot == <<".", ".">>
Root == <<>>
PathA   == <<<<"a">>>>                      \* /a
PathAB  == <<<<"a">>, <<"b">>>>             \* /a/b
PathABC == <<<<"a">>, <<"b">>, <<"c">>>>    \* /a/b/c
PathAC  == <<<<"a">>, <<"c">>>>             \* /a/c
PathX   == <<<<"x">>>>                      \* /x
Paths == {PathA, PathAB, PathABC, PathAC, PathX}

RECURSIVE Clean(_)
\* filepath.Clean of an absolute path: "" and "." components vanish, ".."
\* drops the component before it (and vanishes at the root)
Clean(segs) ==
    IF segs = <<>> THEN <<>>
    ELSE LET init == Clean(SubSeq(segs, 1, Len(segs) - 1))
             s == segs[Len(segs)]
         IN  IF s = <<>> \/ s = Dot THEN init
             ELSE IF s = DotDot
                  THEN IF init = <<>> THEN <<>> ELSE SubSeq(init, 1, Len(init) - 1)
                  ELSE Append(init, s)

\* filepath.Abs: an absolute path is cleaned, a relative one is joined to the
\* working directory first.  A path is [abs |-> BOOLEAN, segs |-> components].
Abs(wd, p) == IF p.abs THEN Clean(p.segs) ELSE Clean(wd \o p.segs)

RelOf(segs) == [abs |-> FALSE, segs |-> segs]

RECURSIVE CommonLen(_, _)
CommonLen(s, t) ==
    IF s = <<>> \/ t = <<>> \/ Head(s) # Head(t) THEN 0
    ELSE 1 + CommonLen(Tail(s), Tail(t))

\* filepath.Rel(base, targ) for two clean absolute paths of one volume: "."
\* when equal, else one ".." per component of base below the common prefix,
\* then the rest of targ.
Rel(base, targ) ==
    LET k == CommonLen(base, targ)
    IN  IF base = targ THEN <<Dot>>
        ELSE [i \in 1..(Len(base) - k) |-> DotDot] \o SubSeq(targ, k + 1, Len(targ))

\* rel != ".." && !filepath.IsAbs(rel) && rel != "."
\* (Rel's result is relative, so IsAbs(rel) is false)
isSubPath(path, parentPath) ==
    LET rel == Rel(parentPath, path)
    IN  rel # <<DotDot>> /\ rel # <<Dot>>

\* ------------------------------------------------------------- registry
\* A ProtectedRepo: Password is the stored hash ("" = no password).  plain is
\* history, not program state: the password the Guard was protected with.
\* LastAccessed is 0 as Protect stamps it and 1 once UpdateLastAccessed has
\* stamped it again (ProtectedAt is a wall-clock stamp nothing reads).
Guard(password) == [Password |-> IF password # PwEmpty THEN hashPassword(password) ELSE <<>>,
                    plain |-> password, LastAccessed |-> 0]

EmptyMap == [x \in {} |-> x]

\* The registry document: the map it holds, or a truncated text that
\* json.Unmarshal rejects
DocOf(rs) == [ok |-> TRUE, repos |-> rs]
CorruptDoc == [ok |-> FALSE, repos |-> EmptyMap]

NoCall == [op |-> "none", path |-> Root, pw |-> PwEmpty, confirm |-> FALSE, ret |-> "ok"]
Call(op, path, pw, confirm, ret) ==
    [op |-> op, path |-> path, pw |-> pw, confirm |-> confirm, ret |-> ret]

Put(m, k, v) == [x \in DOMAIN m \cup {k} |-> IF x = k THEN v ELSE m[x]]
Drop(m, k) == [x \in DOMAIN m \ {k} |-> m[x]]

\* IsProtected: this path or any "parent" is protected
IsProtected(rs, absPath) ==
    \E protectedPath \in DOMAIN rs :
        absPath = protectedPath \/ isSubPath(absPath, protectedPath)

\* GetProtection: the exact match if there is one, else the first Guard the
\* map iteration meets with isSubPath; Go's map order is unspecified, so any
\* of them.  The result is the set of keys the call can return ({} = nil).
GetProtection(rs, absPath) ==
    IF absPath \in DOMAIN rs THEN {absPath}
    ELSE {protectedPath \in DOMAIN rs : isSubPath(absPath, protectedPath)}

\* VerifyAccess, given the Guard g its GetProtection call returned
VerifyAccessWith(rs, g, password) ==
    IF rs[g].Password = <<>> THEN TRUE
    ELSE verifyPassword(password, rs[g].Password)

\* The verdicts VerifyAccess can return
VerifyAccess(rs, absPath, password) ==
    IF GetProtection(rs, absPath) = {} THEN {TRUE}
    ELSE {VerifyAccessWith(rs, g, password) : g \in GetProtection(rs, absPath)}

\* os.WriteFile of the registry document: it succeeds, or (a fault) it fails
\* before the file is opened or after it was truncated.
SaveOutcomes(rs) ==
    {[ok |-> TRUE, doc |-> DocOf(rs)]} \cup
    (IF faults > 0 THEN {[ok |-> FALSE, doc |-> doc], [ok |-> FALSE, doc |-> CorruptDoc]}
     ELSE {})

\* save, with outcome o
save(o) ==
    /\ doc' = o.doc
    /\ faults' = IF o.ok THEN faults ELSE faults - 1

\* pm.Protect(repoPath, password): store / overwrite the Guard, then save
ProtectedRepoManager_Protect(absPath, password, o) ==
    /\ repos' = Put(repos, absPath, Guard(password))
    /\ save(o)

\* What pm.Unprotect(repoPath, password) returns, given the outcome o of its save
UnprotectResult(rs, absPath, password, o) ==
    IF absPath \notin DOMAIN rs THEN "ok"                    \* not protected
    ELSE IF rs[absPath].Password # <<>> /\ ~verifyPassword(password, rs[absPath].Password)
         THEN "AccessDenied"                                 \* NewError(ErrGitProtected, nil)
         ELSE IF o.ok THEN "ok" ELSE "IOError"

\* Whether pm.Unprotect gets as far as delete and save
UnprotectDeletes(rs, absPath, password) ==
    /\ absPath \in DOMAIN rs
    /\ rs[absPath].Password = <<>> \/ verifyPassword(password, rs[absPath].Password)

\* The outcomes of the save Unprotect makes, if it makes one
UnprotectOutcomes(rs, absPath, password) ==
    IF UnprotectDeletes(rs, absPath, password) THEN SaveOutcomes(Drop(rs, absPath))
    ELSE {[ok |-> TRUE, doc |-> doc]}

\* pm.Unprotect(repoPath, password)
ProtectedRepoManager_Unprotect(absPath, password, o) ==
    IF UnprotectDeletes(repos, absPath, password)
    THEN /\ repos' = Drop(repos, absPath)
         /\ save(o)
    ELSE UNCHANGED <<repos, doc, faults>>

\* A direct call of Protect
Protect ==
    /\ UNCHANGED <<vaultVars, watchVars, cipherVars, lockVars, raceVars, sizeVars>>
    /\ \E p \in Paths, pw \in Passwords :
        /\ Cardinality(DOMAIN repos \cup {p}) <= MaxGuards
        /\ \E o \in SaveOutcomes(Put(repos, p, Guard(pw))) :
              /\ ProtectedRepoManager_Protect(p, pw, o)
              /\ rlast' = Call("Protect", p, pw, FALSE, IF o.ok THEN "ok" ELSE "IOError")

\* A direct call of Unprotect
Unprotect ==
    /\ UNCHANGED <<vaultVars, watchVars, cipherVars, lockVars, raceVars, sizeVars>>
    /\ \E p \in Paths, pw \in Passwords :
        \E o \in UnprotectOutcomes(repos, p, pw) :
            /\ ProtectedRepoManager_Unprotect(p, pw, o)
            /\ rlast' = Call("Unprotect", p, pw, FALSE, UnprotectResult(repos, p, pw, o))

\* Router.handleProtect in working directory cwd; password is what the user
\* types at the prompt the --password flag opens ("" without the flag)
handleProtect ==
    /\ UNCHANGED <<vaultVars, watchVars, cipherVars, lockVars, raceVars, sizeVars>>
    /\ \E cwd \in Paths, password \in Passwords :
            IF IsProtected(repos, cwd)
            THEN /\ rlast' = Call("handleProtect", cwd, password, FALSE, "already")
                 /\ UNCHANGED <<repos, doc, faults>>
            ELSE /\ Cardinality(DOMAIN repos \cup {cwd}) <= MaxGuards
                 /\ \E o \in SaveOutcomes(Put(repos, cwd, Guard(password))) :
                       /\ ProtectedRepoManager_Protect(cwd, password, o)
                       /\ rlast' = Call("handleProtect", cwd, password, FALSE,
                                        IF o.ok THEN "ok" ELSE "IOError")

\* Router.handleUnprotect in working directory cwd
handleUnprotect ==
    /\ UNCHANGED <<vaultVars, watchVars, cipherVars, lockVars, raceVars, sizeVars>>
    /\ \E cwd \in Paths :
        IF GetProtection(repos, cwd) = {}
        THEN /\ rlast' = Call("handleUnprotect", cwd, PwEmpty, FALSE, "notProtected")
             /\ UNCHANGED <<repos, doc, faults>>
        ELSE \E protection \in GetProtection(repos, cwd) :
             \E password \in IF repos[protection].Password # <<>> THEN Passwords
                              ELSE {PwEmpty} :
             \E o \in UnprotectOutcomes(repos, cwd, password) :
                /\ ProtectedRepoManager_Unprotect(cwd, password, o)
                /\ rlast' = Call("handleUnprotect", cwd, password, FALSE,
                                 UnprotectResult(repos, cwd, password, o))

\* Router.handlePush in working directory wd (lines 472-513): entered is the
\* password typed, confirm the answer to "Proceed with push?".  ret "pushed" /
\* "pushFailed" mean svc.Push ran.
PushResults == {"pushed", "pushFailed"}

handlePush ==
    /\ UNCHANGED <<vaultVars, watchVars, cipherVars, lockVars, raceVars, sizeVars>>
    /\ UNCHANGED <<repos, doc, faults>>
    /\ \E wd \in Paths :
        IF GetProtection(repos, wd) = {}
        THEN \E ran \in PushResults : rlast' = Call("handlePush", wd, PwEmpty, FALSE, ran)
        ELSE \E protection \in GetProtection(repos, wd) :
             IF repos[protection].Password # <<>>
             THEN \E entered \in Passwords :
                  \E verdict \in VerifyAccess(repos, wd, entered) :
                  \E ran \in IF verdict THEN PushResults ELSE {"AccessDenied"} :
                     rlast' = Call("handlePush", wd, entered, FALSE, ran)
             ELSE \E confirm \in BOOLEAN :
                  \E ran \in IF confirm THEN PushResults ELSE {"cancelled"} :
                     rlast' = Call("handlePush", wd, PwEmpty, confirm, ran)

\* NewProtectedRepoManager in a new process: the map is what the document
\* holds (a document that does not parse fails the construction)
RegistryLoad ==
    /\ UNCHANGED <<vaultVars, watchVars, cipherVars, lockVars, raceVars, sizeVars>>
    /\ doc.ok
    /\ repos' = doc.repos
    /\ rlast' = Call("load", Root, PwEmpty, FALSE, "ok")
    /\ UNCHANGED <<doc, faults>>

RegistryNext ==
    \/ Protect
    \/ Unprotect
    \/ handleProtect
    \/ handleUnprotect
    \/ handlePush
    \/ RegistryLoad

\* ------------------------------------------- registry calls, goroutine by goroutine
\* pm.mu is a sync.RWMutex.  Every exported method takes it on entry and
\* releases it by defer on return: Protect, Unprotect and UpdateLastAccessed
\* with Lock / Unlock, IsProtected, GetProtection and List with RLock / RUnlock.
Goroutines == 1..MaxGoroutines
Writers == {"Protect", "Unprotect", "UpdateLastAccessed"}
Readers == {"IsProtected", "GetProtection", "List"}

Unlocked == [w |-> 0, r |-> {}]

\* a write lock that does not wait for the readers to leave
CanLockOverReaders(m) == m.w = 0

\* rw.Lock() returns once no goroutine holds the lock in either mode
CanLock(m) == m.w = 0 /\ m.r = {}

\* rw.RLock() returns once no goroutine holds the write lock
CanRLock(m) == m.w = 0

\* The calls followed: a goroutine's call is [op, path, pw]
RegistryCalls ==
    [op : {"Protect"}, path : {PathAB}, pw : {PwEmpty, PwSecret}] \cup
    [op : {"Unprotect"}, path : {PathAB}, pw : {PwSecret}] \cup
    [op : {"UpdateLastAccessed"}, path : {PathAB}, pw : {PwEmpty}] \cup
    [op : {"IsProtected", "GetProtection"}, path : {PathABC}, pw : {PwEmpty}] \cup
    [op : {"List"}, path : {Root}, pw : {PwEmpty}]

\* A goroutine outside the registry
Idle == [op |-> "none", path |-> Root, pw |-> PwEmpty, pc |-> "idle", ret |-> "none"]

\* A goroutine calls a method: it stands before the method's first statement
RegistryCall ==
    /\ UNCHANGED <<vaultVars, watchVars, cipherVars, raceVars, sizeVars, regVars, faults, mu>>
    /\ \E t \in Goroutines, c \in RegistryCalls :
          /\ thr[t].pc = "idle"
          /\ thr' = [thr EXCEPT ![t] = [op |-> c.op, path |-> c.path, pw |-> c.pw,
                                        pc |-> "call", ret |-> "none"]]

\* pm.mu.Lock()
Lock ==
    /\ UNCHANGED <<vaultVars, watchVars, cipherVars, raceVars, sizeVars, regVars, faults>>
    /\ \E t \in Goroutines :
          /\ thr[t].pc = "call"
          /\ thr[t].op \in Writers
          /\ CanLock(mu)
          /\ mu' = [mu EXCEPT !.w = t]
          /\ thr' = [thr EXCEPT ![t].pc = "locked"]

\* pm.mu.RLock()
RLock ==
    /\ UNCHANGED <<vaultVars, watchVars, cipherVars, raceVars, sizeVars, regVars, faults>>
    /\ \E t \in Goroutines :
          /\ thr[t].pc = "call"
          /\ thr[t].op \in Readers
          /\ CanRLock(mu)
          /\ mu' = [mu EXCEPT !.r = @ \cup {t}]
          /\ thr' = [thr EXCEPT ![t].pc = "locked"]

\* The body of Protect, between Lock and the deferred Unlock
LockedProtect ==
    /\ UNCHANGED <<vaultVars, watchVars, cipherVars, raceVars, sizeVars, rlast, mu>>
    /\ \E t \in Goroutines :
          /\ thr[t].pc = "locked"
          /\ thr[t].op = "Protect"
          /\ \E o \in SaveOutcomes(Put(repos, thr[t].path, Guard(thr[t].pw))) :
                /\ ProtectedRepoManager_Protect(thr[t].path, thr[t].pw, o)
                /\ thr' = [thr EXCEPT ![t].pc = "done",
                                      ![t].ret = IF o.ok THEN "ok" ELSE "IOError"]

\* The body of Unprotect, between Lock and the deferred Unlock
LockedUnprotect ==
    /\ UNCHANGED <<vaultVars, watchVars, cipherVars, raceVars, sizeVars, rlast, mu>>
    /\ \E t \in Goroutines :
          /\ thr[t].pc = "locked"
          /\ thr[t].op = "Unprotect"
          /\ \E o \in UnprotectOutcomes(repos, thr[t].path, thr[t].pw) :
                /\ ProtectedRepoManager_Unprotect(thr[t].path, thr[t].pw, o)
                /\ thr' = [thr EXCEPT ![t].pc = "done",
                              ![t].ret = UnprotectResult(repos, thr[t].path, thr[t].pw, o)]

\* The body of UpdateLastAccessed: stamp the Guard of an exact match and save,
\* the error of save dropped
UpdateLastAccessed ==
    /\ UNCHANGED <<vaultVars, watchVars, cipherVars, raceVars, sizeVars, rlast, mu>>
    /\ \E t \in Goroutines :
          /\ thr[t].pc = "locked"
          /\ thr[t].op = "UpdateLastAccessed"
          /\ IF thr[t].path \in DOMAIN repos
             THEN LET stamped == [repos EXCEPT ![thr[t].path].LastAccessed = 1]
                  IN  /\ repos' = stamped
                      /\ \E o \in SaveOutcomes(stamped) : save(o)
             ELSE UNCHANGED <<repos, doc, faults>>
          /\ thr' = [thr EXCEPT ![t].pc = "done", ![t].ret = "ok"]

\* The body of IsProtected, GetProtection or List, between RLock and the
\* deferred RUnlock
LockedRead ==
    /\ UNCHANGED <<vaultVars, watchVars, cipherVars, raceVars, sizeVars, regVars, faults, mu>>
    /\ \E t \in Goroutines :
          /\ thr[t].pc = "locked"
          /\ thr[t].op \in Readers
          /\ \E ret \in CASE thr[t].op = "IsProtected" ->
                               {IF IsProtected(repos, thr[t].path) THEN "true" ELSE "false"}
                          [] thr[t].op = "GetProtection" ->
                               {IF GetProtection(repos, thr[t].path) = {} THEN "nil"
                                ELSE "found"}
                          [] OTHER -> {IF DOMAIN repos = {} THEN "empty" ELSE "some"} :
                thr' = [thr EXCEPT ![t].pc = "done", ![t].ret = ret]

\* defer pm.mu.Unlock(): the method returns
Unlock ==
    /\ UNCHANGED <<vaultVars, watchVars, cipherVars, raceVars, sizeVars, regVars, faults>>
    /\ \E t \in Goroutines :
          /\ thr[t].pc = "done"
          /\ thr[t].op \in Writers
          /\ mu' = [mu EXCEPT !.w = 0]
          /\ thr' = [thr EXCEPT ![t] = Idle]

\* defer pm.mu.RUnlock(): the method returns
RUnlock ==
    /\ UNCHANGED <<vaultVars, watchVars, cipherVars, raceVars, sizeVars, regVars, faults>>
    /\ \E t \in Goroutines :
          /\ thr[t].pc = "done"
          /\ thr[t].op \in Readers
          /\ mu' = [mu EXCEPT !.r = @ \ {t}]
          /\ thr' = [thr EXCEPT ![t] = Idle]

LockNext ==
    \/ RegistryCall
    \/ Lock
    \/ RLock
    \/ LockedProtect
    \/ LockedUnprotect
    \/ UpdateLastAccessed
    \/ LockedRead
    \/ Unlock
    \/ RUnlock

\* --------------------------------------------------------------- cipher
\* Byte strings are sequences.  A byte is a record [kind, key, nonce, i, body]:
\* kind "raw" is a plain byte (body = <<its value>>), kind "ct" the i-th byte
\* of a plaintext sealed under key and nonce (body = <<the plaintext byte>>),
\* kind "tag" the i-th byte of the authentication tag of the plaintext body
\* sealed under key and nonce.  AES-GCM is taken as ideal: sealed bytes carry
\* what they were made from, so a tag matches one key, nonce and text only.
Raw(b) == [kind |-> "raw", key |-> <<>>, nonce |-> <<>>, i |-> 0, body |-> <<b>>]
Bytes(str) == [i \in 1..Len(str) |-> Raw(str[i])]

\* A machine: what os.Hostname and os.UserHomeDir return ("" on error)
Machines ==
    {[hostname |-> <<"h", "1">>, homeDir |-> <<"/", "u">>],
     [hostname |-> <<"h", "2">>, homeDir |-> <<"/", "u">>],
     [hostname |-> <<>>, homeDir |-> <<>>]}

\* encryptionKey: sha256 of hostname + homeDir + "arngit-secret-sauce",
\* represented by the seed it digests
encryptionKey(m) == m.hostname \o m.homeDir \o <<"arngit-secret-sauce">>

\* The values rand.Reader fills a nonce with
Nonces == {[i \in 1..NonceSize |-> Raw(x)] : x \in {"n1", "n2"}}

\* The values of a raw byte string
Values(bs) == [i \in 1..Len(bs) |-> bs[i].body[1]]

\* gcm.Seal(dst, nonce, plaintext, nil): dst, the ciphertext, the tag
Seal(dst, key, nonce, plaintext) ==
    dst \o [i \in 1..Len(plaintext) |->
               [kind |-> "ct", key |-> key, nonce |-> Values(nonce), i |-> i,
                body |-> <<plaintext[i]>>]]
        \o [i \in 1..TagSize |->
               [kind |-> "tag", key |-> key, nonce |-> Values(nonce), i |-> i,
                body |-> plaintext]]

\* gcm.Open(nil, nonce, ciphertext, nil): the plaintext, if the text is at
\* least a tag long and is what Seal makes of that plaintext under this key
\* and nonce; else an error
Open(key, nonce, ciphertext) ==
    IF Len(ciphertext) < TagSize \/ \E i \in DOMAIN nonce : nonce[i].kind # "raw"
    THEN [ok |-> FALSE, val |-> <<>>]
    ELSE LET n == Len(ciphertext) - TagSize
             plaintext == [i \in 1..n |-> IF ciphertext[i].body = <<>> THEN "?"
                                           ELSE ciphertext[i].body[1]]
         IN  IF ciphertext = Seal(<<>>, key, nonce, plaintext)
             THEN [ok |-> TRUE, val |-> plaintext]
             ELSE [ok |-> FALSE, val |-> <<>>]

\* A base64 character is a record [grp, j]: the j-th (1..4) character of the
\* encoding of the group grp of up to three bytes; Pad is "=" and BadChar a
\* character outside the alphabet.
Pad == [grp |-> <<>>, j |-> 0]
BadChar == [grp |-> <<>>, j |-> -1]
Garbage == Raw("?")

\* The four characters of one group
EncodeGroup(grp) ==
    [j \in 1..4 |-> IF j <= Len(grp) + 1 THEN [grp |-> grp, j |-> j] ELSE Pad]

RECURSIVE EncodeToString(_)
\* base64.StdEncoding.EncodeToString
EncodeToString(data) ==
    IF data = <<>> THEN <<>>
    ELSE IF Len(data) <= 3 THEN EncodeGroup(data)
    ELSE EncodeGroup(SubSeq(data, 1, 3)) \o EncodeToString(SubSeq(data, 4, Len(data)))

\* The bytes four characters decode to: the group they encode; other bytes
\* when they are alphabet characters that come from elsewhere; an error for a
\* character outside the alphabet or padding out of place
DecodeGroup(q, last) ==
    LET pads == Cardinality({j \in 1..4 : q[j] = Pad})
    IN  IF \/ \E j \in 1..4 : q[j] = BadChar
           \/ pads > 2
           \/ pads > 0 /\ ~last
           \/ \E j \in 1..(4 - pads) : q[j] = Pad
        THEN [ok |-> FALSE, val |-> <<>>]
        ELSE IF q = EncodeGroup(q[1].grp) /\ q[1].grp # <<>>
        THEN [ok |-> TRUE, val |-> q[1].grp]
        ELSE [ok |-> TRUE, val |-> [i \in 1..(3 - pads) |-> Garbage]]

RECURSIVE DecodeString(_)
\* base64.StdEncoding.DecodeString
DecodeString(str) ==
    IF str = <<>> THEN [ok |-> TRUE, val |-> <<>>]
    ELSE IF Len(str) < 4 THEN [ok |-> FALSE, val |-> <<>>]
    ELSE LET head == DecodeGroup(SubSeq(str, 1, 4), Len(str) = 4)
             rest == DecodeString(SubSeq(str, 5, Len(str)))
         IN  IF head.ok /\ rest.ok THEN [ok |-> TRUE, val |-> head.val \o rest.val]
             ELSE [ok |-> FALSE, val |-> <<>>]

\* an encrypt that leaves the nonce out of the token: gcm.Seal(nil, ...)
encryptNoNonce(key, nonce, plaintext) == EncodeToString(Seal(<<>>, key, nonce, plaintext))

\* encrypt(plaintext), given the machine's key and the nonce drawn
encrypt(key, nonce, plaintext) == EncodeToString(Seal(nonce, key, nonce, plaintext))

\* decrypt(ciphertext) under the machine's key: [ok, val]
decrypt(key, ciphertext) ==
    LET data == DecodeString(ciphertext)
    IN  IF ~data.ok THEN [ok |-> FALSE, val |-> <<>>]
        ELSE IF Len(data.val) < NonceSize THEN [ok |-> FALSE, val |-> <<>>]
        ELSE Open(key, SubSeq(data.val, 1, NonceSize),
                  SubSeq(data.val, NonceSize + 1, Len(data.val)))

\* strings.TrimSpace, over the ASCII white space
WhiteSpace == {" ", "\t", "\n", "\r", "\f"}

RECURSIVE TrimLeft(_)
TrimLeft(str) ==
    IF str # <<>> /\ Head(str) \in WhiteSpace THEN TrimLeft(Tail(str)) ELSE str

RECURSIVE TrimRight(_)
TrimRight(str) ==
    IF str # <<>> /\ str[Len(str)] \in WhiteSpace
    THEN TrimRight(SubSeq(str, 1, Len(str) - 1)) ELSE str

TrimSpace(str) == TrimRight(TrimLeft(str))

\* ---------------------------------------------------------------- vault
\* Account names, in the order filepath.Glob lists their files (sorted).
NameOrder == <<"a", "b", "c">>
Names == {NameOrder[i] : i \in DOMAIN NameOrder}
NoName == ""

\* An Account: IsDefault and PAT (the encrypted token) take part in the
\* vault's decisions.  secret is the pat argument Add was given and sealedBy
\* the key it was encrypted under (history, not read by the code).
Account(isDefault, pat, secret, key) ==
    [IsDefault |-> isDefault, PAT |-> pat, secret |-> secret, sealedBy |-> key]

\* The pat arguments of Add
Secrets == {<<" ", "t", "\n">>, <<"u">>}

\* <name>.json: missing, truncated (json.Unmarshal rejects it), or an Account
NoFile == [st |-> "nofile", IsDefault |-> FALSE, PAT |-> <<>>, secret |-> <<>>,
           sealedBy |-> <<>>]
CorruptFile == [st |-> "corrupt", IsDefault |-> FALSE, PAT |-> <<>>, secret |-> <<>>,
                sealedBy |-> <<>>]
FileOf(acc) == [st |-> "ok", IsDefault |-> acc.IsDefault, PAT |-> acc.PAT,
                secret |-> acc.secret, sealedBy |-> acc.sealedBy]
AccountOf(file) == Account(file.IsDefault, file.PAT, file.secret, file.sealedBy)
NoVaultCall == [op |-> "none", name |-> NoName, ret |-> "ok", val |-> <<>>]
VaultCall(op, name, ret) == [op |-> op, name |-> name, ret |-> ret, val |-> <<>>]

\* os.WriteFile of <name>.json with content acc: it succeeds, or (a fault) it
\* fails before the file is opened or after it was truncated.
WriteOutcomes(fs, name, acc) ==
    {[ok |-> TRUE, fs |-> [fs EXCEPT ![name] = FileOf(acc)]]} \cup
    (IF faults > 0
     THEN {[ok |-> FALSE, fs |-> fs],
           [ok |-> FALSE, fs |-> [fs EXCEPT ![name] = CorruptFile]]}
     ELSE {})

\* an existence test that never finds the name
ExistsNever(accs, name) == FALSE

\* _, exists := am.accounts[name]
Exists(accs, name) == name \in DOMAIN accs

\* am.Add(name, ...)
Add ==
    /\ UNCHANGED <<regVars, watchVars, cipherVars, lockVars, raceVars, sizeVars>>
    /\ \E name \in Names :
        IF Exists(accounts, name)
        THEN /\ vlast' = VaultCall("Add", name, "exists")
             /\ UNCHANGED <<accounts, current, files, faults>>
        ELSE \E pat \in Secrets, nonce \in Nonces :
             LET key == encryptionKey(machine)
                 encryptedPAT == encrypt(key, nonce, TrimSpace(pat))
                 acc == Account(DOMAIN accounts = {},     \* len(am.accounts) == 0
                                encryptedPAT, pat, key)
             IN  \E o \in WriteOutcomes(files, name, acc) :
                    /\ files' = o.fs
                    /\ faults' = IF o.ok THEN faults ELSE faults - 1
                    /\ IF o.ok
                       THEN /\ accounts' = Put(accounts, name, acc)
                            /\ current' = IF acc.IsDefault THEN name ELSE current
                            /\ vlast' = VaultCall("Add", name, "ok")
                       ELSE /\ UNCHANGED <<accounts, current>>
                            /\ vlast' = VaultCall("Add", name, "IOError")

\* am.Remove(name): os.Remove fails when the file is missing or on a fault
Remove ==
    /\ UNCHANGED <<regVars, watchVars, cipherVars, lockVars, raceVars, sizeVars>>
    /\ \E name \in Names :
        IF name \notin DOMAIN accounts
        THEN /\ vlast' = VaultCall("Remove", name, "notFound")
             /\ UNCHANGED <<accounts, current, files, faults>>
        ELSE \/ /\ files[name] = NoFile \/ faults > 0
                /\ faults' = IF files[name] = NoFile THEN faults ELSE faults - 1
                /\ vlast' = VaultCall("Remove", name, "IOError")
                /\ UNCHANGED <<accounts, current, files>>
             \/ /\ files[name] # NoFile
                /\ files' = [files EXCEPT ![name] = NoFile]
                /\ accounts' = Drop(accounts, name)
                /\ IF current = name
                   THEN \* am.current = "", then the first name the map iteration meets
                        IF DOMAIN accounts \ {name} = {}
                        THEN current' = NoName
                        ELSE current' \in DOMAIN accounts \ {name}
                   ELSE current' = current
                /\ vlast' = VaultCall("Remove", name, "ok")
                /\ UNCHANGED faults

RECURSIVE SwitchSaves(_, _, _, _)
\* The files Switch can leave behind: am.save for every account whose flag
\* changed, each with its own outcome, errors ignored.  left is the set of
\* changed accounts not yet saved, f the faults still available; the result
\* is a set of [fs, faults].
SwitchSaves(fs, accs, left, f) ==
    IF left = {} THEN {[fs |-> fs, faults |-> f]}
    ELSE LET n == CHOOSE x \in left : TRUE
         IN  SwitchSaves([fs EXCEPT ![n] = FileOf(accs[n])], accs, left \ {n}, f) \cup
             (IF f > 0
              THEN SwitchSaves(fs, accs, left \ {n}, f - 1) \cup
                   SwitchSaves([fs EXCEPT ![n] = CorruptFile], accs, left \ {n}, f - 1)
              ELSE {})

\* am.Switch(name)
Switch ==
    /\ UNCHANGED <<regVars, watchVars, cipherVars, lockVars, raceVars, sizeVars>>
    /\ \E name \in Names :
        IF name \notin DOMAIN accounts
        THEN /\ vlast' = VaultCall("Switch", name, "notFound")
             /\ UNCHANGED <<accounts, current, files, faults>>
        ELSE LET flipped == [n \in DOMAIN accounts |->
                                [accounts[n] EXCEPT !.IsDefault = (n = name)]]
                 changed == {n \in DOMAIN accounts :
                                accounts[n].IsDefault # flipped[n].IsDefault}
             IN  /\ accounts' = flipped
                 /\ \E r \in SwitchSaves(files, flipped, changed, faults) :
                       /\ files' = r.fs
                       /\ faults' = r.faults
                 /\ current' = name
                 /\ vlast' = VaultCall("Switch", name, "ok")

\* The last name of NameOrder among ns ("" when ns is empty)
LastOf(ns) ==
    IF ns = {} THEN NoName
    ELSE NameOrder[CHOOSE i \in DOMAIN NameOrder :
                      /\ NameOrder[i] \in ns
                      /\ \A j \in DOMAIN NameOrder : NameOrder[j] \in ns => j <= i]

\* NewAccountManager / loadAll in a new process: every file that reads and
\* parses becomes an account; am.current is the last one flagged IsDefault
VaultLoad ==
    LET ok == {n \in Names : files[n].st = "ok"}
    IN  /\ UNCHANGED <<regVars, watchVars, cipherVars, lockVars, raceVars, sizeVars>>
        /\ accounts' = [n \in ok |-> AccountOf(files[n])]
        /\ current' = LastOf({n \in ok : files[n].IsDefault})
        /\ vlast' = VaultCall("load", NoName, "ok")
        /\ UNCHANGED <<files, faults>>

\* am.Current(): the name of the account it returns, "" for nil (am.current
\* empty, or naming no entry of am.accounts, whose lookup yields nil)
AccountManager_Current(accs, cur) ==
    IF cur = NoName THEN NoName
    ELSE IF cur \in DOMAIN accs THEN cur ELSE NoName

\* a GetPAT that turns a decrypt error into an empty secret
GetPATSwallow(accs, name, key) ==
    IF name \notin DOMAIN accs THEN [ret |-> "notFound", val |-> <<>>]
    ELSE LET pat == decrypt(key, accs[name].PAT)
         IN  [ret |-> "ok", val |-> TrimSpace(pat.val)]

\* What am.GetPAT(name) returns under the machine's key
AccountManager_GetPAT(accs, name, key) ==
    IF name \notin DOMAIN accs THEN [ret |-> "notFound", val |-> <<>>]
    ELSE LET pat == decrypt(key, accs[name].PAT)
         IN  IF ~pat.ok THEN [ret |-> "DecryptError", val |-> <<>>]
             ELSE [ret |-> "ok", val |-> TrimSpace(pat.val)]

\* am.GetPAT(name)
GetPAT ==
    /\ UNCHANGED <<regVars, watchVars, cipherVars, lockVars, raceVars, sizeVars>>
    /\ \E name \in Names :
          LET r == AccountManager_GetPAT(accounts, name, encryptionKey(machine))
          IN  vlast' = [VaultCall("GetPAT", name, r.ret) EXCEPT !.val = r.val]
    /\ UNCHANGED <<accounts, current, files, faults>>

VaultNext ==
    \/ Add
    \/ Remove
    \/ Switch
    \/ VaultLoad
    \/ GetPAT

\* ---------------------------------------------- vault calls, statement by statement
\* AccountManager has no lock: two goroutines that share it (the foreground
\* and the watcher's publish path, which asks Current and GetPAT in
\* runWithAuth) run its methods statement by statement in any order.  The
\* interleavings followed are those of whole statements on am.accounts,
\* am.current, an Account's IsDefault and the files; a Switch loop visits
\* every name in the map it has not visited yet.
Callers == {"foreground", "watcher"}

\* The vault two goroutines share: [accounts, current, files]
Shared(accs, cur, fs) == [accounts |-> accs, current |-> cur, files |-> fs]

\* The account Add builds from its arguments
RaceAccount(isDefault, nonce) ==
    LET key == encryptionKey([hostname |-> <<"h", "1">>, homeDir |-> <<"/", "u">>])
    IN  Account(isDefault, encrypt(key, nonce, TrimSpace(<<"u">>)), <<"u">>, key)

\* The vaults the calls start from: empty, or a (active) and b
RaceVaults ==
    LET n == CHOOSE x \in Nonces : TRUE
        accs == [x \in {"a", "b"} |-> RaceAccount(x = "a", n)]
    IN  {Shared(EmptyMap, NoName, [x \in Names |-> NoFile]),
         Shared(accs, "a",
                [x \in Names |-> IF x \in DOMAIN accs THEN FileOf(accs[x]) ELSE NoFile])}

\* A call: the method, its name argument and, for Add, the nonce encrypt draws
RaceCalls ==
    [op : {"Add"}, name : {"a", "b"}, nonce : Nonces] \cup
    [op : {"Remove", "Switch", "GetPAT"}, name : {"a", "b"},
     nonce : {CHOOSE x \in Nonces : TRUE}] \cup
    [op : {"Current"}, name : {NoName}, nonce : {CHOOSE x \in Nonces : TRUE}]

\* A goroutine at the first statement of call c.  Its locals: seen (the names
\* the Switch loop has visited), flag (acc.IsDefault as Add computed it), cur
\* (am.current as Current read it); ret and val are what the call returns.
Entered(c) ==
    [op |-> c.op, name |-> c.name, nonce |-> c.nonce, pc |-> "exists", seen |-> {},
     flag |-> FALSE, cur |-> NoName, ret |-> "none", val |-> <<>>]

Return(g, ret) == [g EXCEPT !.pc = "returned", !.ret = ret]
Goto(g, pc) == [g EXCEPT !.pc = pc]
Config(s, g) == [s |-> s, g |-> g]

\* Add, one statement at a time: the existence test (510), len(am.accounts)
\* == 0 (524), am.save (529), am.accounts[name] = acc (533), am.current =
\* name if acc.IsDefault (534-536)
AddSteps(s, g) ==
    CASE g.pc = "exists" ->
           {Config(s, IF Exists(s.accounts, g.name) THEN Return(g, "exists")
                      ELSE Goto(g, "len"))}
      [] g.pc = "len" ->
           {Config(s, [Goto(g, "save") EXCEPT !.flag = (DOMAIN s.accounts = {})])}
      [] g.pc = "save" ->
           {Config([s EXCEPT !.files[g.name] = FileOf(RaceAccount(g.flag, g.nonce))],
                   Goto(g, "put"))}
      [] g.pc = "put" ->
           {Config([s EXCEPT !.accounts = Put(@, g.name, RaceAccount(g.flag, g.nonce))],
                   Goto(g, "current"))}
      [] g.pc = "current" ->
           LET isDefault == IF g.name \in DOMAIN s.accounts
                            THEN s.accounts[g.name].IsDefault ELSE g.flag
           IN  {Config(IF isDefault THEN [s EXCEPT !.current = g.name] ELSE s,
                       Return(g, "ok"))}
      [] OTHER -> {}

\* Remove, one statement at a time: the existence test (543), os.Remove
\* (548), delete (552), am.current = "" if it was the name (555-556), the
\* first name the map iteration meets (557-560)
RemoveSteps(s, g) ==
    CASE g.pc = "exists" ->
           {Config(s, IF Exists(s.accounts, g.name) THEN Goto(g, "file")
                      ELSE Return(g, "notFound"))}
      [] g.pc = "file" ->
           IF s.files[g.name] = NoFile THEN {Config(s, Return(g, "IOError"))}
           ELSE {Config([s EXCEPT !.files[g.name] = NoFile], Goto(g, "delete"))}
      [] g.pc = "delete" ->
           {Config([s EXCEPT !.accounts = Drop(@, g.name)], Goto(g, "current"))}
      [] g.pc = "current" ->
           IF s.current = g.name
           THEN {Config([s EXCEPT !.current = NoName], Goto(g, "pick"))}
           ELSE {Config(s, Return(g, "ok"))}
      [] g.pc = "pick" ->
           IF DOMAIN s.accounts = {} THEN {Config(s, Return(g, "ok"))}
           ELSE {Config([s EXCEPT !.current = n], Return(g, "ok")) : n \in DOMAIN s.accounts}
      [] OTHER -> {}

\* Switch, one statement at a time: the existence test (568), one account of
\* the loop (573-579: set its flag, save it if the flag changed), am.current
\* = name (581)
SwitchSteps(s, g) ==
    CASE g.pc = "exists" ->
           {Config(s, IF Exists(s.accounts, g.name) THEN Goto(g, "loop")
                      ELSE Return(g, "notFound"))}
      [] g.pc = "loop" ->
           IF DOMAIN s.accounts \ g.seen = {} THEN {Config(s, Goto(g, "current"))}
           ELSE {LET acc == [s.accounts[n] EXCEPT !.IsDefault = (n = g.name)]
                 IN  Config([s EXCEPT !.accounts[n] = acc,
                                      !.files[n] = IF s.accounts[n].IsDefault # acc.IsDefault
                                                   THEN FileOf(acc) ELSE @],
                            [g EXCEPT !.seen = @ \cup {n}])
                   : n \in DOMAIN s.accounts \ g.seen}
      [] g.pc = "current" ->
           {Config([s EXCEPT !.current = g.name], Return(g, "ok"))}
      [] OTHER -> {}

\* Current, one statement at a time: am.current == "" (587), then
\* am.accounts[am.current] (590), nil when the map has no such name
CurrentSteps(s, g) ==
    CASE g.pc = "exists" ->
           {Config(s, IF s.current = NoName THEN Return(g, "nil")
                      ELSE [Goto(g, "get") EXCEPT !.cur = s.current])}
      [] g.pc = "get" ->
           {Config(s, IF g.cur \in DOMAIN s.accounts THEN Return(g, "ok")
                      ELSE [Return(g, "nil") EXCEPT !.cur = NoName])}
      [] OTHER -> {}

\* GetPAT: one read of am.accounts[name] (614), the rest on the Account's PAT
GetPATSteps(s, g) ==
    CASE g.pc = "exists" ->
           LET r == AccountManager_GetPAT(s.accounts, g.name, encryptionKey(machine))
           IN  {Config(s, [Return(g, r.ret) EXCEPT !.val = r.val])}
      [] OTHER -> {}

\* The next statement of goroutine g on the shared vault s: every [s, g] it
\* can lead to
Steps(s, g) ==
    CASE g.op = "Add" -> AddSteps(s, g)
      [] g.op = "Remove" -> RemoveSteps(s, g)
      [] g.op = "Switch" -> SwitchSteps(s, g)
      [] g.op = "Current" -> CurrentSteps(s, g)
      [] g.op = "GetPAT" -> GetPATSteps(s, g)
      [] OTHER -> {}

\* Goroutine c runs its next statement
Statement(c) ==
    /\ UNCHANGED <<regVars, watchVars, cipherVars, lockVars, sizeVars, vlast, faults, before>>
    /\ \E n \in Steps(Shared(accounts, current, files), gor[c]) :
          /\ accounts' = n.s.accounts
          /\ current' = n.s.current
          /\ files' = n.s.files
          /\ gor' = [gor EXCEPT ![c] = n.g]

AddStatement ==
    \E c \in Callers :
        /\ gor[c].op = "Add"
        /\ Statement(c)
RemoveStatement ==
    \E c \in Callers :
        /\ gor[c].op = "Remove"
        /\ Statement(c)
SwitchStatement ==
    \E c \in Callers :
        /\ gor[c].op = "Switch"
        /\ Statement(c)
CurrentStatement ==
    \E c \in Callers :
        /\ gor[c].op = "Current"
        /\ Statement(c)
GetPATStatement ==
    \E c \in Callers :
        /\ gor[c].op = "GetPAT"
        /\ Statement(c)

RaceNext ==
    \/ AddStatement
    \/ RemoveStatement
    \/ SwitchStatement
    \/ CurrentStatement
    \/ GetPATStatement

\* What a call leaves when it runs from start to return with no other call
\* in between: every [s, g] it can end in
RECURSIVE RunAlone(_, _)
RunAlone(s, g) ==
    IF g.pc = "returned" THEN {Config(s, g)}
    ELSE UNION {RunAlone(n.s, n.g) : n \in Steps(s, g)}

\* What a returned call hands its caller
Returned(g) == [ret |-> g.ret, val |-> g.val, cur |-> g.cur]

\* -------------------------------------------------------------- watcher
Digits == <<"0", "1", "2", "3", "4", "5", "6", "7", "8", "9">>
IsDigit(c) == \E i \in DOMAIN Digits : Digits[i] = c
DigitVal(c) == (CHOOSE i \in DOMAIN Digits : Digits[i] = c) - 1

RECURSIVE ParseDigits(_, _)
ParseDigits(s, acc) ==
    IF s = <<>> THEN acc
    ELSE ParseDigits(Tail(s), acc * Len(Digits) + DigitVal(Head(s)))

\* strconv.Atoi: an optional sign, then decimal digits; anything else is an
\* error, with value 0
Atoi(s) ==
    LET signed == s # <<>> /\ Head(s) \in {"+", "-"}
        body == IF signed THEN Tail(s) ELSE s
    IN  IF body = <<>> \/ \E i \in DOMAIN body : ~IsDigit(body[i])
        THEN [val |-> 0, ok |-> FALSE]
        ELSE [val |-> IF signed /\ Head(s) = "-"
                      THEN 0 - ParseDigits(body, 0) ELSE ParseDigits(body, 0),
              ok |-> TRUE]

\* time.Duration values are counted in milliseconds
Millisecond == 1
Second == 1000 * Millisecond
Minute == 60 * Second
Hour == 60 * Minute

\* The unit strings of time.ParseDuration from the millisecond up
\* ("ns", "us" are below the model's resolution)
unitMap ==
    {[unit |-> <<"m", "s">>, scale |-> Millisecond],
     [unit |-> <<"s">>, scale |-> Second],
     [unit |-> <<"m">>, scale |-> Minute],
     [unit |-> <<"h">>, scale |-> Hour]}

\* The length of the longest prefix of s made of digits / of no digits
RECURSIVE DigitPrefix(_)
DigitPrefix(s) ==
    IF s = <<>> \/ ~IsDigit(Head(s)) THEN 0 ELSE 1 + DigitPrefix(Tail(s))

RECURSIVE UnitPrefix(_)
UnitPrefix(s) ==
    IF s = <<>> \/ IsDigit(Head(s)) \/ Head(s) = "." THEN 0 ELSE 1 + UnitPrefix(Tail(s))

\* The groups of a duration string, each digits then a unit, summed up
RECURSIVE ParseGroups(_, _)
ParseGroups(s, acc) ==
    IF s = <<>> THEN [val |-> acc, ok |-> TRUE]
    ELSE LET nd == DigitPrefix(s)
             rest == SubSeq(s, nd + 1, Len(s))
             nu == UnitPrefix(rest)
             unit == SubSeq(rest, 1, nu)
         IN  IF nd = 0 \/ nu = 0 \/ \A u \in unitMap : u.unit # unit
             THEN [val |-> 0, ok |-> FALSE]
             ELSE ParseGroups(SubSeq(rest, nu + 1, Len(rest)),
                              acc + ParseDigits(SubSeq(s, 1, nd), 0)
                                    * (CHOOSE u \in unitMap : u.unit = unit).scale)

\* time.ParseDuration for strings without a fraction: an optional sign, then
\* "0" or one or more groups of digits and unit; anything else is an error
ParseDuration(s) ==
    LET signed == s # <<>> /\ Head(s) \in {"+", "-"}
        body == IF signed THEN Tail(s) ELSE s
        r == ParseGroups(body, 0)
    IN  IF body = <<"0">> THEN [val |-> 0, ok |-> TRUE]
        ELSE IF body = <<>> \/ ~r.ok THEN [val |-> 0, ok |-> FALSE]
        ELSE [val |-> IF signed /\ Head(s) = "-" THEN 0 - r.val ELSE r.val, ok |-> TRUE]

\* An int64 is four 16-bit limbs in two's complement, least significant
\* first; a wide number is six limbs, enough for every value met before it is
\* cut to 64 bits.
Wide == <<0, 0, 0, 0, 0, 0>>
MaxInt64 == <<Limb - 1, Limb - 1, Limb - 1, Limb \div 2 - 1>>
MinInt64 == <<0, 0, 0, Limb \div 2>>

\* int64(n) for a small n >= 0
Int64(n) == <<n % Limb, (n \div Limb) % Limb, 0, 0>>

\* -x, wrapping
Neg64(x) == MulAdd64([i \in 1..4 |-> Limb - 1 - x[i]], 1, 1, 1)

IsNeg64(x) == x[4] >= Limb \div 2

\* x < y for limbs of equal length read as unsigned numbers
RECURSIVE Below(_, _, _)
Below(x, y, k) ==
    IF k = 0 THEN FALSE
    ELSE IF x[k] # y[k] THEN x[k] < y[k]
    ELSE Below(x, y, k - 1)

\* x >= y for two int64
GreaterEq64(x, y) ==
    IF IsNeg64(x) # IsNeg64(y) THEN IsNeg64(y)
    ELSE ~Below(x, y, 4)

\* the digits of s as a wide number
RECURSIVE ParseWide(_, _)
ParseWide(s, acc) ==
    IF s = <<>> THEN acc
    ELSE ParseWide(Tail(s), MulAdd64(acc, Len(Digits), DigitVal(Head(s)), 1))

\* strconv.ParseInt(s, 10, 64): an optional sign, then decimal digits; a
\* syntax error gives 0, a value out of range the nearest int64, both with an
\* error
ParseInt(s) ==
    LET signed == s # <<>> /\ Head(s) \in {"+", "-"}
        neg == signed /\ Head(s) = "-"
        body == IF signed THEN Tail(s) ELSE s
        un == ParseWide(body, Wide)
        low == SubSeq(un, 1, 4)
        over == un[5] > 0 \/ un[6] > 0                \* above 2^64 - 1
    IN  IF body = <<>> \/ \E i \in DOMAIN body : ~IsDigit(body[i])
        THEN [val |-> Int64(0), ok |-> FALSE]
        ELSE IF ~neg /\ (over \/ IsNeg64(low))        \* un >= 1<<63
             THEN [val |-> MaxInt64, ok |-> FALSE]
        ELSE IF neg /\ (over \/ (IsNeg64(low) /\ low # MinInt64))   \* un > 1<<63
             THEN [val |-> MinInt64, ok |-> FALSE]
        ELSE [val |-> IF neg THEN Neg64(low) ELSE low, ok |-> TRUE]

\* strings.ToUpper, over the ASCII letters
LowerCase == <<"a", "b", "c", "d", "e", "f", "g", "h", "i", "j", "k", "l", "m",
               "n", "o", "p", "q", "r", "s", "t", "u", "v", "w", "x", "y", "z">>
UpperCase == <<"A", "B", "C", "D", "E", "F", "G", "H", "I", "J", "K", "L", "M",
               "N", "O", "P", "Q", "R", "S", "T", "U", "V", "W", "X", "Y", "Z">>
ToUpper(s) ==
    [i \in DOMAIN s |->
        IF \E j \in DOMAIN LowerCase : LowerCase[j] = s[i]
        THEN UpperCase[CHOOSE j \in DOMAIN LowerCase : LowerCase[j] = s[i]]
        ELSE s[i]]

\* strings.TrimSuffix
TrimSuffix(s, suffix) ==
    IF Len(s) >= Len(suffix) /\ SubSeq(s, Len(s) - Len(suffix) + 1, Len(s)) = suffix
    THEN SubSeq(s, 1, Len(s) - Len(suffix))
    ELSE s

\* strings.HasSuffix
HasSuffix(s, suffix) ==
    Len(s) >= Len(suffix) /\ SubSeq(s, Len(s) - Len(suffix) + 1, Len(s)) = suffix

\* x * 1024^k, wrapping at 64 bits
RECURSIVE Times1024(_, _)
Times1024(x, k) == IF k = 0 THEN x ELSE Times1024(MulAdd64(x, 1024, 0, 1), k - 1)

\* The suffixes of ParseSize in the order it tests them, with the power of
\* 1024 of their multiplier
SizeSuffixes == <<[suffix |-> <<"K", "B">>, power |-> 1],
                  [suffix |-> <<"M", "B">>, power |-> 2],
                  [suffix |-> <<"G", "B">>, power |-> 3]>>

\* ParseSize up to its return: the power of 1024 of the suffix found and what
\* ParseInt makes of the text before it
SizeParts(str) ==
    LET s == ToUpper(TrimSpace(str))
        hits == {i \in DOMAIN SizeSuffixes : HasSuffix(s, SizeSuffixes[i].suffix)}
        first == CHOOSE i \in hits : \A j \in hits : i <= j
        rest == IF hits = {} THEN s ELSE TrimSuffix(s, SizeSuffixes[first].suffix)
    IN  [power |-> IF hits = {} THEN 0 ELSE SizeSuffixes[first].power,
         value |-> ParseInt(TrimSpace(rest))]

\* ParseSize: the value before the suffix times the multiplier; the error of
\* ParseInt is dropped, the product wraps
ParseSize(str) == Times1024(SizeParts(str).value.val, SizeParts(str).power)

\* The decimal integers ParseSize is called with: small ones, and 2^33 and
\* 2^53, whose products with the larger multipliers pass 2^63
SizeNumbers ==
    {<<"0">>, <<"1">>, <<"2">>, <<"5">>, <<"1", "0", "2", "4">>,
     <<"8", "5", "8", "9", "9", "3", "4", "5", "9", "2">>,
     <<"9", "0", "0", "7", "1", "9", "9", "2", "5", "4", "7", "4", "0", "9", "9", "2">>}

\* The unit suffixes written after the number, none included
SizeUnits == {<<>>, <<"K", "B">>, <<"M", "B">>, <<"G", "B">>, <<"k", "b">>, <<"m", "b">>,
              <<"g", "b">>, <<"T", "B">>}

\* The arguments of ParseSize: number and unit, bare, with a space between
\* them, or with spaces around
SizeInputs ==
    UNION {{n \o u, n \o <<" ">> \o u, <<" ">> \o n \o u \o <<" ">>} :
              n \in SizeNumbers, u \in SizeUnits}

\* A call of ParseSize
ParseSizeCall ==
    /\ \E str \in SizeInputs : sz' = [input |-> str, val |-> ParseSize(str)]
    /\ UNCHANGED <<vaultVars, regVars, watchVars, cipherVars, lockVars, raceVars, faults>>

SizeNext ==
    \/ ParseSizeCall

ThresholdCommits == "commits"
ThresholdTime == "time"
ThresholdSize == "size"

\* NewWatcher's defaults for the fields a decision reads
NewWatcher(cfg) ==
    LET type == IF cfg.ThresholdType = "" THEN ThresholdCommits ELSE cfg.ThresholdType
        value == IF cfg.ThresholdValue # <<>> THEN cfg.ThresholdValue
                 ELSE IF type = ThresholdCommits THEN <<"3">>
                 ELSE IF type = ThresholdTime THEN <<"5", "m">>
                 ELSE IF type = ThresholdSize THEN <<"1", "M", "B">>
                 ELSE <<>>
    IN  [thresholdType |-> type, thresholdValue |-> value,
         interval |-> IF cfg.Interval = 0 THEN 10 * Second ELSE cfg.Interval]

\* The configurations watchers are built from
WatcherConfigs ==
    [ThresholdType : {"", ThresholdCommits}, ThresholdValue : {<<>>, <<"2">>, <<"3">>},
     Interval : {Second}] \cup
    [ThresholdType : {ThresholdTime},
     ThresholdValue : {<<>>, <<"2", "s">>, <<"x">>},
     Interval : {Second}]

\* the comparison of line 162 written as a strict one
ThresholdReachedStrict(count, threshold) == count > threshold

\* count >= threshold (line 162)
ThresholdReached(count, threshold) == count >= threshold

\* What gitSvc.PendingCommitCount can report on a poll
CountObservations ==
    {[err |-> TRUE, count |-> 0, size |-> 0]} \cup
    {[err |-> FALSE, count |-> c, size |-> 0] : c \in 0..MaxCount}

\* What gitSvc.UnpushedChangesSize can report on a poll: an error, or the
\* length of the diff --stat text
SizeObservations ==
    {[err |-> TRUE, count |-> 0, size |-> 0]} \cup
    {[err |-> FALSE, count |-> 0, size |-> z] : z \in {0, 100, 1024, 2048}}

\* What the git call of checkThreshold's case can report
Observations(cfg) ==
    IF cfg.thresholdType = ThresholdSize THEN SizeObservations ELSE CountObservations

\* the test of line 180 passing with nothing pending
PendingWorkAny(count) == count >= 0

\* count > 0 (line 180)
PendingWork(count) == count > 0

\* case ThresholdCommits of checkThreshold
checkCommits(cfg, obs) ==
    IF obs.err THEN [shouldPush |-> FALSE, reason |-> "", checked |-> FALSE]
    ELSE LET threshold == Atoi(cfg.thresholdValue).val
         IN  IF ThresholdReached(obs.count, threshold)
             THEN [shouldPush |-> TRUE, reason |-> "commits pending", checked |-> TRUE]
             ELSE IF obs.count > 0
                  THEN [shouldPush |-> FALSE, reason |-> "n/m commits", checked |-> TRUE]
                  ELSE [shouldPush |-> FALSE, reason |-> "", checked |-> TRUE]

\* case ThresholdTime of checkThreshold: PendingCommitCount returns 0 with an
\* error, and the error is dropped
checkTime(cfg, obs, elapsed) ==
    LET duration == ParseDuration(cfg.thresholdValue)
    IN  IF ~duration.ok THEN [shouldPush |-> FALSE, reason |-> "", checked |-> FALSE]
        ELSE IF elapsed >= duration.val /\ PendingWork(obs.count)
             THEN [shouldPush |-> TRUE, reason |-> "time threshold reached",
                   checked |-> TRUE]
             ELSE [shouldPush |-> FALSE, reason |-> "", checked |-> TRUE]

\* case ThresholdSize of checkThreshold
checkSize(cfg, obs) ==
    IF obs.err THEN [shouldPush |-> FALSE, reason |-> "", checked |-> FALSE]
    ELSE IF GreaterEq64(Int64(obs.size), ParseSize(cfg.thresholdValue))
         THEN [shouldPush |-> TRUE, reason |-> "size threshold reached", checked |-> TRUE]
         ELSE [shouldPush |-> FALSE, reason |-> "", checked |-> TRUE]

\* checkThreshold, given what git reports on this poll and the time since
\* w.lastPushTime: whether to push, the reason ("" = none), whether OnCheck
\* fired
checkThreshold(cfg, obs, elapsed) ==
    IF cfg.thresholdType = ThresholdCommits THEN checkCommits(cfg, obs)
    ELSE IF cfg.thresholdType = ThresholdTime THEN checkTime(cfg, obs, elapsed)
    ELSE IF cfg.thresholdType = ThresholdSize THEN checkSize(cfg, obs)
    ELSE [shouldPush |-> FALSE, reason |-> "", checked |-> FALSE]

RECURSIVE LastPart(_)
\* the last element of strings.Split(s, "/")
LastPart(s) ==
    IF \A i \in DOMAIN s : s[i] # "/" THEN s ELSE LastPart(Tail(s))

DotGit == <<".", "g", "i", "t">>

\* Service.RepoName: the last "/" part of the origin URL without ".git"; ""
\* when git knows no origin (push drops the error)
RepoName(origin) ==
    IF ~origin.ok THEN <<>> ELSE LastPart(TrimSuffix(origin.url, DotGit))

\* The origin remotes of the watched repository: none, "h/r.git", ".."
Origins ==
    {[ok |-> FALSE, url |-> <<>>],
     [ok |-> TRUE, url |-> <<"h", "/", "r">> \o DotGit],
     [ok |-> TRUE, url |-> DotDot]}

\* The protection check of Watcher.push: IsProtected(repoName), a relative
\* path, which filepath.Abs joins to the working directory
PushBlocked(rs, env) == IsProtected(rs, Abs(env.wd, RelOf(<<RepoName(env.origin)>>)))

\* The flags of the watch command
FlagCommits == <<"-", "-", "c", "o", "m", "m", "i", "t", "s">>
FlagTime == <<"-", "-", "t", "i", "m", "e">>
FlagSize == <<"-", "-", "s", "i", "z", "e">>
FlagInterval == <<"-", "-", "i", "n", "t", "e", "r", "v", "a", "l">>

\* The ThresholdType a flag selects
FlagType(flag) ==
    IF flag = FlagCommits THEN ThresholdCommits
    ELSE IF flag = FlagTime THEN ThresholdTime
    ELSE ThresholdSize

\* The argument loop of handleWatch from args[i] on: a known flag followed by
\* a value sets the configuration, anything else is stepped over
RECURSIVE parseWatchArgs(_, _, _)
parseWatchArgs(args, i, cfg) ==
    IF i > Len(args) THEN cfg
    ELSE IF i + 1 > Len(args) \/ args[i] \notin {FlagCommits, FlagTime, FlagSize, FlagInterval}
         THEN parseWatchArgs(args, i + 1, cfg)
    ELSE IF args[i] = FlagInterval
         THEN LET d == ParseDuration(args[i + 1])
              IN  parseWatchArgs(args, i + 2,
                                 IF d.ok THEN [cfg EXCEPT !.Interval = d.val] ELSE cfg)
    ELSE parseWatchArgs(args, i + 2, [cfg EXCEPT !.ThresholdType = FlagType(args[i]),
                                                  !.ThresholdValue = args[i + 1]])

\* handleWatch: the WatcherConfig it hands NewWatcher for the arguments args
handleWatch(args) ==
    parseWatchArgs(args, 1, [ThresholdType |-> ThresholdCommits, ThresholdValue |-> <<"3">>,
                             Interval |-> 10 * Second])

\* An error value: its dynamic type, the ErrorCode of an AppError, its text
NoError == [type |-> "nil", code |-> "", text |-> ""]

\* fmt.Errorf without %w: an *errors.errorString, which has a text only
Errorf(text) == [type |-> "*errors.errorString", code |-> "", text |-> text]

\* core.NewError(code, nil): an *AppError carrying the code
NewError(code) == [type |-> "*core.AppError", code |-> code, text |-> ""]
ErrGitProtected == "GIT_PROTECTED"

\* What w.push() returns for a protected repository (line 207)
PushBlockedError == Errorf("repository is protected - skipping auto-push")

\* What gitSvc.Push returns when git fails: git's stderr as the text
GitMessages == {"rejected"}
GitError(text) == Errorf(text)

NoPoll == [cb |-> "none", blocked |-> FALSE, pushRan |-> FALSE, failed |-> FALSE,
           afterStop |-> FALSE, err |-> NoError]

watchEnvVars == <<vaultVars, regVars, cipherVars, lockVars, raceVars, sizeVars, faults, wcfg, wenv>>

\* Start, line 106: the context and its cancel function are stored
StartInit ==
    /\ wpc = "new"
    /\ wpc' = "select"
    /\ cancelSet' = TRUE
    /\ ctxDone' = FALSE
    /\ UNCHANGED <<watchEnvVars, tickReady, clock, lastPushTime, pollLog, wlast, stoppedEarly>>

\* The ticker fires, one interval after the last time.  A Start parked in the
\* select receives the tick, which decides the select; otherwise ticker.C
\* (capacity 1) takes it, or drops it when full.
Tick ==
    /\ wpc \in {"select", "parked", "tick", "pushing"}
    /\ Len(pollLog) < MaxPolls
    /\ clock < MaxTicks * wcfg.interval
    /\ clock' = clock + wcfg.interval
    /\ IF wpc = "parked"
       THEN wpc' = "tick" /\ UNCHANGED tickReady
       ELSE tickReady' = TRUE /\ UNCHANGED wpc
    /\ UNCHANGED <<watchEnvVars, cancelSet, ctxDone, lastPushTime, pollLog, wlast, stoppedEarly>>

\* select with no case ready: Start blocks
SelectPark ==
    /\ wpc = "select"
    /\ ~ctxDone
    /\ ~tickReady
    /\ wpc' = "parked"
    /\ UNCHANGED <<watchEnvVars, cancelSet, ctxDone, tickReady, clock, lastPushTime,
                 pollLog, wlast, stoppedEarly>>

\* select takes <-ticker.C; when w.ctx.Done() is ready too, Go picks either
SelectTick ==
    /\ wpc = "select"
    /\ tickReady
    /\ Len(pollLog) < MaxPolls
    /\ tickReady' = FALSE
    /\ wpc' = "tick"
    /\ UNCHANGED <<watchEnvVars, cancelSet, ctxDone, clock, lastPushTime, pollLog, wlast, stoppedEarly>>

\* select takes <-w.ctx.Done()
SelectDone ==
    /\ wpc = "select"
    /\ ctxDone
    /\ wpc' = "done"
    /\ UNCHANGED <<watchEnvVars, cancelSet, ctxDone, tickReady, clock, lastPushTime,
                 pollLog, wlast, stoppedEarly>>

\* case <-w.ctx.Done(): return nil
StartReturn ==
    /\ wpc = "done"
    /\ wpc' = "returned"
    /\ UNCHANGED <<watchEnvVars, cancelSet, ctxDone, tickReady, clock, lastPushTime,
                 pollLog, wlast, stoppedEarly>>

\* case <-ticker.C: checkThreshold, then w.push() up to the call of
\* gitSvc.Push, which is left in flight
Poll ==
    /\ wpc = "tick"
    /\ \E obs \in Observations(wcfg) :
          LET elapsed == clock - lastPushTime    \* time.Since(w.lastPushTime)
              r == checkThreshold(wcfg, obs, elapsed)
              blocked == PushBlocked(repos, wenv)
          IN  /\ pollLog' = Append(pollLog, [count |-> obs.count, size |-> obs.size,
                                             err |-> obs.err,
                                             elapsed |-> elapsed,
                                             checked |-> r.checked,
                                             attempted |-> r.shouldPush])
              /\ IF r.shouldPush
                 THEN IF blocked
                      THEN /\ wpc' = "select"
                           /\ wlast' = [cb |-> "OnError", blocked |-> TRUE,
                                        pushRan |-> FALSE, failed |-> FALSE,
                                        afterStop |-> ctxDone, err |-> PushBlockedError]
                      ELSE /\ wpc' = "pushing"
                           /\ wlast' = [cb |-> "none", blocked |-> FALSE,
                                        pushRan |-> TRUE, failed |-> FALSE,
                                        afterStop |-> ctxDone, err |-> NoError]
                 ELSE /\ wpc' = "select"
                      /\ wlast' = [cb |-> IF r.reason # "" THEN "OnSkipped" ELSE "none",
                                   blocked |-> FALSE, pushRan |-> FALSE,
                                   failed |-> FALSE, afterStop |-> ctxDone,
                                   err |-> NoError]
    /\ UNCHANGED <<watchEnvVars, cancelSet, ctxDone, tickReady, clock, lastPushTime, stoppedEarly>>

\* a Start that returns when the push fails
PushReturnFatal ==
    /\ wpc = "pushing"
    /\ \E err \in {NoError} \cup {GitError(text) : text \in GitMessages} :
          LET ok == err = NoError
          IN  /\ wpc' = IF ok THEN "select" ELSE "returned"
              /\ wlast' = [wlast EXCEPT !.cb = IF ok THEN "OnPush" ELSE "OnError",
                                        !.failed = ~ok, !.err = err]
              /\ lastPushTime' = IF ok THEN clock ELSE lastPushTime
    /\ UNCHANGED <<watchEnvVars, cancelSet, ctxDone, tickReady, clock, pollLog, stoppedEarly>>

\* a push whose return sets w.lastPushTime whether it succeeded or not
PushReturnStamps ==
    /\ wpc = "pushing"
    /\ wpc' = "select"
    /\ \E err \in {NoError} \cup {GitError(text) : text \in GitMessages} :
          LET ok == err = NoError
          IN  /\ wlast' = [wlast EXCEPT !.cb = IF ok THEN "OnPush" ELSE "OnError",
                                        !.failed = ~ok, !.err = err]
              /\ lastPushTime' = clock
    /\ UNCHANGED <<watchEnvVars, cancelSet, ctxDone, tickReady, clock, pollLog, stoppedEarly>>

\* gitSvc.Push returns: on success w.lastPushTime is set and OnPush fires, on
\* failure OnError fires; either way the loop goes on
PushReturn ==
    /\ wpc = "pushing"
    /\ wpc' = "select"
    /\ \E err \in {NoError} \cup {GitError(text) : text \in GitMessages} :
          LET ok == err = NoError
          IN  /\ wlast' = [wlast EXCEPT !.cb = IF ok THEN "OnPush" ELSE "OnError",
                                        !.failed = ~ok, !.err = err]
              /\ lastPushTime' = IF ok THEN clock ELSE lastPushTime
    /\ UNCHANGED <<watchEnvVars, cancelSet, ctxDone, tickReady, clock, pollLog, stoppedEarly>>

\* A tick has fired
Fired == tickReady \/ wpc = "tick" \/ pollLog # <<>>

\* Stop(), from another goroutine (the signal handler of handleWatch):
\* w.cancel() unless w.cancel is nil.  Cancelling wakes a Start parked in the
\* select with the Done case.  stoppedEarly records that a call came before
\* any tick fired.
Stop ==
    /\ ctxDone' = (ctxDone \/ cancelSet)
    /\ wpc' = IF cancelSet /\ wpc = "parked" THEN "done" ELSE wpc
    /\ stoppedEarly' = (stoppedEarly \/ ~Fired)
    /\ UNCHANGED <<watchEnvVars, cancelSet, tickReady, clock, lastPushTime, pollLog, wlast>>

WatcherNext ==
    \/ StartInit
    \/ Tick
    \/ SelectPark
    \/ SelectTick
    \/ SelectDone
    \/ StartReturn
    \/ Poll
    \/ PushReturn
    \/ Stop

\* ------------------------------------------------- cipher, called alone
\* The plaintexts encrypt is called with
Plaintexts == {<<>>, <<"t">>, <<" ", "t", "\n">>, <<"t", " ", "u">>}

NoCipherCall == [op |-> "none", plaintext |-> <<>>, token |-> <<>>, sealedBy |-> <<>>,
                 intact |-> FALSE, ok |-> TRUE, val |-> <<>>]

\* encrypt(plaintext): the token, made under this machine's key
encryptCall ==
    /\ \E plaintext \in Plaintexts, nonce \in Nonces :
          cx' = [op |-> "encrypt", plaintext |-> plaintext,
                 token |-> encrypt(encryptionKey(machine), nonce, plaintext),
                 sealedBy |-> encryptionKey(machine), intact |-> TRUE,
                 ok |-> TRUE, val |-> <<>>]
    /\ UNCHANGED <<vaultVars, regVars, watchVars, lockVars, raceVars, sizeVars, faults, machine>>

\* What can become of a stored token: cut short at any length, a character
\* replaced by one outside the alphabet, two characters exchanged
Malformed(token) ==
    {SubSeq(token, 1, n) : n \in 0..(Len(token) - 1)} \cup
    {[token EXCEPT ![i] = BadChar] : i \in {1, Len(token)}} \cup
    {[token EXCEPT ![1] = token[Len(token) - 1], ![Len(token) - 1] = token[1]]}

\* The token is damaged (an edited or half-written <name>.json)
Damage ==
    /\ cx.op = "encrypt"
    /\ \E token \in Malformed(cx.token) :
          cx' = [cx EXCEPT !.op = "damage", !.token = token, !.intact = FALSE]
    /\ UNCHANGED <<vaultVars, regVars, watchVars, lockVars, raceVars, sizeVars, faults, machine>>

\* The accounts directory is taken to another machine or another user
Rehost ==
    /\ cx.op = "encrypt"
    /\ \E m \in Machines \ {machine} : machine' = m
    /\ UNCHANGED <<vaultVars, regVars, watchVars, lockVars, raceVars, sizeVars, faults, cx>>

\* decrypt(token)
decryptCall ==
    /\ cx.op \in {"encrypt", "damage"}
    /\ LET r == decrypt(encryptionKey(machine), cx.token)
       IN  cx' = [cx EXCEPT !.op = "decrypt", !.ok = r.ok, !.val = r.val]
    /\ UNCHANGED <<vaultVars, regVars, watchVars, lockVars, raceVars, sizeVars, faults, machine>>

\* am.GetPAT of an account whose PAT is the token
tokenGetPAT ==
    /\ cx.op \in {"encrypt", "damage"}
    /\ LET r == AccountManager_GetPAT(
                    Put(EmptyMap, "a", Account(TRUE, cx.token, cx.plaintext, cx.sealedBy)),
                    "a", encryptionKey(machine))
       IN  cx' = [cx EXCEPT !.op = "GetPAT", !.ok = (r.ret = "ok"), !.val = r.val]
    /\ UNCHANGED <<vaultVars, regVars, watchVars, lockVars, raceVars, sizeVars, faults, machine>>

CipherNext ==
    \/ encryptCall
    \/ Damage
    \/ Rehost
    \/ decryptCall
    \/ tokenGetPAT

\* ------------------------------------------------------- specifications
vars == <<accounts, current, files, vlast, repos, doc, rlast, faults, machine, cx,
          wcfg, wenv, wpc, cancelSet, ctxDone, tickReady, clock, lastPushTime,
          pollLog, wlast, stoppedEarly, mu, thr, gor, before, sz>>

VaultInit ==
    /\ accounts = EmptyMap
    /\ current = NoName
    /\ files = [n \in Names |-> NoFile]
    /\ vlast = NoVaultCall

RegistryInit ==
    /\ repos = EmptyMap
    /\ doc = DocOf(EmptyMap)
    /\ rlast = NoCall

\* ParseSize has not been called
SizeNone == sz = [input |-> <<>>, val |-> Int64(0)]

\* No goroutine is inside the vault
RaceNone ==
    /\ gor = <<>>
    /\ before = <<>>

\* No goroutine is inside the registry
LockInit ==
    /\ mu = Unlocked
    /\ thr = [t \in Goroutines |-> Idle]

\* A process on the first machine that has not called the cipher
CipherInit ==
    /\ machine = [hostname |-> <<"h", "1">>, homeDir |-> <<"/", "u">>]
    /\ cx = NoCipherCall

\* A watcher as NewWatcher returns it, before Start
WatcherInit ==
    /\ wpc = "new"
    /\ cancelSet = FALSE
    /\ ctxDone = FALSE
    /\ tickReady = FALSE
    /\ clock = 0
    /\ lastPushTime = 0
    /\ pollLog = <<>>
    /\ wlast = NoPoll
    /\ stoppedEarly = FALSE

\* A watcher nobody starts
WatcherNone ==
    /\ wcfg = NewWatcher([ThresholdType |-> "", ThresholdValue |-> <<>>, Interval |-> 0])
    /\ wenv = [wd |-> PathAB, origin |-> [ok |-> FALSE, url |-> <<>>], args |-> <<>>]
    /\ WatcherInit

\* The vault alone, on a disk that can fail
InitV ==
    /\ VaultInit
    /\ LockInit
    /\ RaceNone
    /\ SizeNone
    /\ CipherInit
    /\ RegistryInit
    /\ WatcherNone
    /\ faults \in 0..MaxFaults

SpecVault == InitV /\ [][VaultNext]_vars

\* The registry and the foreground handlers alone, on a disk that does not fail
InitR ==
    /\ VaultInit
    /\ LockInit
    /\ RaceNone
    /\ SizeNone
    /\ CipherInit
    /\ RegistryInit
    /\ WatcherNone
    /\ faults = 0

SpecRegistry == InitR /\ [][RegistryNext]_vars

\* The registries a watch process can have loaded: none, or its working
\* directory protected
WatchRegistries == {EmptyMap, Put(EmptyMap, PathAB, Guard(PwEmpty))}

\* The watch sessions followed, all in working directory /a/b: every
\* configuration in an unprotected repository with an ordinary origin, and the
\* default configuration with every origin and registry
WatchSessions ==
    [cfg : {NewWatcher(c) : c \in WatcherConfigs},
     env : {[wd |-> PathAB, origin |-> [ok |-> TRUE, url |-> <<"h", "/", "r">> \o DotGit],
             args |-> <<>>]},
     repos : {EmptyMap}] \cup
    [cfg : {NewWatcher([ThresholdType |-> "", ThresholdValue |-> <<>>, Interval |-> Second])},
     env : [wd : {PathAB}, origin : Origins, args : {<<>>}],
     repos : WatchRegistries]

\* One watch session
InitW ==
    /\ VaultInit
    /\ LockInit
    /\ RaceNone
    /\ SizeNone
    /\ CipherInit
    /\ \E session \in WatchSessions :
          /\ wcfg = session.cfg
          /\ wenv = session.env
          /\ repos = session.repos
    /\ doc = DocOf(repos)
    /\ rlast = NoCall
    /\ WatcherInit
    /\ faults = 0

SpecWatcher == InitW /\ [][WatcherNext]_vars

\* The cipher alone, on any machine
InitC ==
    /\ VaultInit
    /\ LockInit
    /\ RaceNone
    /\ SizeNone
    /\ RegistryInit
    /\ WatcherNone
    /\ faults = 0
    /\ machine \in Machines
    /\ cx = NoCipherCall

SpecCipher == InitC /\ [][CipherNext]_vars

\* Goroutines sharing one registry, on a disk that does not fail
InitL ==
    /\ VaultInit
    /\ LockInit
    /\ RaceNone
    /\ SizeNone
    /\ CipherInit
    /\ RegistryInit
    /\ WatcherNone
    /\ faults = 0

SpecLock == InitL /\ [][LockNext]_vars

\* Two goroutines, each at the start of one vault call, on a disk that does
\* not fail
InitX ==
    /\ \E v \in RaceVaults :
          /\ before = v
          /\ accounts = v.accounts
          /\ current = v.current
          /\ files = v.files
    /\ vlast = NoVaultCall
    /\ gor \in [Callers -> {Entered(c) : c \in RaceCalls}]
    /\ SizeNone
    /\ LockInit
    /\ CipherInit
    /\ RegistryInit
    /\ WatcherNone
    /\ faults = 0

SpecRace == InitX /\ [][RaceNext]_vars

\* The arguments of a watch command as the README writes it:
\* --threshold <kind> --value <value>
ReadmeCommand(kind, value) ==
    <<<<"-", "-", "t", "h", "r", "e", "s", "h", "o", "l", "d">>, kind,
      <<"-", "-", "v", "a", "l", "u", "e">>, value>>

\* The command lines of arngit watch followed, each a list of arguments
WatchCommands ==
    {<<>>,
     <<FlagCommits, <<"0">>>>, <<FlagCommits, <<"2">>>>, <<FlagCommits, <<"x">>>>,
     <<FlagTime, <<"2", "0", "s">>>>, <<FlagTime, <<"x">>>>,
     <<FlagSize, <<"1", "K", "B">>>>, <<FlagSize, <<"0">>>>, <<FlagSize, <<"x">>>>,
     ReadmeCommand(<<"c", "o", "m", "m", "i", "t", "s">>, <<"5">>),
     ReadmeCommand(<<"t", "i", "m", "e">>, <<"1", "0", "m">>),
     ReadmeCommand(<<"s", "i", "z", "e">>, <<"2", "M", "B">>)}

\* One arngit watch command in an unprotected repository
InitT ==
    /\ VaultInit
    /\ LockInit
    /\ RaceNone
    /\ SizeNone
    /\ CipherInit
    /\ RegistryInit
    /\ \E args \in WatchCommands :
          /\ wcfg = NewWatcher(handleWatch(args))
          /\ wenv = [wd |-> PathAB,
                     origin |-> [ok |-> TRUE, url |-> <<"h", "/", "r">> \o DotGit],
                     args |-> args]
    /\ WatcherInit
    /\ faults = 0

SpecTrigger == InitT /\ [][WatcherNext]_vars

\* ParseSize alone
InitS ==
    /\ VaultInit
    /\ LockInit
    /\ RaceNone
    /\ SizeNone
    /\ CipherInit
    /\ RegistryInit
    /\ WatcherNone
    /\ faults = 0

SpecSize == InitS /\ [][SizeNext]_vars

\* Protect, Unprotect and a reload of the registry, on a disk whose writes can
\* fail (os.WriteFile at protected.go 58 returns an error, with the document
\* as it was or truncated)
StoreNext == Protect \/ Unprotect \/ RegistryLoad

InitF ==
    /\ VaultInit
    /\ LockInit
    /\ RaceNone
    /\ SizeNone
    /\ CipherInit
    /\ RegistryInit
    /\ WatcherNone
    /\ faults = MaxFaults

SpecStore == InitF /\ [][StoreNext]_vars

Init == InitV \/ InitR \/ InitW \/ InitC \/ InitL \/ InitX \/ InitT \/ InitS \/ InitF
Next == VaultNext \/ RegistryNext \/ WatcherNext \/ CipherNext \/ LockNext \/ RaceNext \/ SizeNext
Spec == Init /\ [][Next]_vars

\* ---------------------------------------------------------------- claims
\* The data model's coverage relation: g equals p or is an ancestor of it.
Covers(g, p) == Len(g) <= Len(p) /\ SubSeq(p, 1, Len(g)) = g

\* The Guards that cover path p in the data model's sense
Covering(rs, p) == {g \in DOMAIN rs : Covers(g, p)}

\* C1: after any sequence of Add / Remove / Switch calls that leaves at least
\* one identity in the vault, exactly one identity has IsDefault = true.
C1_ExactlyOneDefault ==
    DOMAIN accounts # {} =>
        Cardinality({n \in DOMAIN accounts : accounts[n].IsDefault}) = 1

\* C2: an unprotect of a path whose Guard was protected with a non-empty
\* password, given any other password, fails with AccessDenied and leaves the
\* Guard covering the path.
C2_WrongPasswordDenied ==
    [][\A p \in Paths :
          (/\ rlast'.op \in {"Unprotect", "handleUnprotect"}
           /\ rlast'.path = p
           /\ p \in DOMAIN repos
           /\ repos[p].plain # PwEmpty
           /\ rlast'.pw # repos[p].plain)
          => (/\ rlast'.ret = "AccessDenied"
              /\ p \in DOMAIN repos'
              /\ IsProtected(repos', p))]_vars

\* C3: IsProtected(path) is true if and only if the path equals a stored
\* Guard path or descends from one.
C3_CoverageExact ==
    \A p \in Paths : IsProtected(repos, p) <=> Covering(repos, p) # {}

\* C4: a watcher poll that triggers while the working path is covered by a
\* Guard reports a protection error through OnError and does not call
\* gitSvc.Push.
C4_WatcherNeverPushesProtected ==
    (/\ pollLog # <<>>
     /\ pollLog[Len(pollLog)].attempted
     /\ Covering(repos, wenv.wd) # {})
    => (wlast.blocked /\ ~wlast.pushRan /\ wlast.cb = "OnError")

\* C5: a foreground push in a working directory covered by a Guard runs
\* svc.Push only when the password entered is the one a covering Guard was
\* protected with, or, for a Guard without password, when the user confirmed.
C5_PushNeedsAuthorization ==
    (/\ rlast.op = "handlePush"
     /\ rlast.ret \in PushResults
     /\ Covering(repos, rlast.path) # {})
    => \E g \in Covering(repos, rlast.path) :
          IF repos[g].plain = PwEmpty THEN rlast.confirm
          ELSE rlast.pw = repos[g].plain

\* C6: with a commit-count trigger of threshold T, a poll calls w.push() if and
\* only if the count it observed is >= T; with T = 3 and counts 1, 2, 3 the
\* first call is on the third poll.
C6_CommitCountTrigger ==
    \A T \in 0..(Len(Digits) - 1) :
        (wcfg.thresholdType = ThresholdCommits /\ wcfg.thresholdValue = <<Digits[T + 1]>>)
        => /\ \A i \in DOMAIN pollLog :
                 pollLog[i].attempted <=> (~pollLog[i].err /\ pollLog[i].count >= T)
           /\ (/\ T = 3
               /\ Len(pollLog) >= 3
               /\ \A i \in 1..3 : ~pollLog[i].err /\ pollLog[i].count = i)
              => (~pollLog[1].attempted /\ ~pollLog[2].attempted /\ pollLog[3].attempted)

\* C6's case: threshold 3, three polls that observed 1, 2, 3, the third pushed
C6_Witness ==
    /\ wcfg.thresholdValue = <<"3">>
    /\ Len(pollLog) = 3
    /\ \A i \in 1..3 : ~pollLog[i].err /\ pollLog[i].count = i
    /\ pollLog[3].attempted

\* C7: once Stop() has run before any tick fired, at whatever moment relative
\* to Start, no poll of the session attempts a publish.
C7_EarlyStopNoPublish ==
    stoppedEarly => \A i \in DOMAIN pollLog : ~pollLog[i].attempted

\* C8: once Stop() has been called on a running watcher (its context is
\* cancelled), no further poll is evaluated and no publish attempt starts.
C8_NoPollAfterStop == ~wlast.afterStop

\* C9: a successful unprotect of a path covered by exactly one Guard leaves
\* the path covered by none.
C9_UnprotectUncovers ==
    [][(/\ rlast'.op \in {"Unprotect", "handleUnprotect"}
        /\ rlast'.ret = "ok"
        /\ Cardinality(Covering(repos, rlast'.path)) = 1)
       => Covering(repos', rlast'.path) = {}]_vars

\* C10: a protect call never changes or clears the stored hash of a Guard
\* that has a password.
C10_ProtectKeepsPassword ==
    [][\A p \in DOMAIN repos :
          (rlast'.op \in {"Protect", "handleProtect"} /\ repos[p].Password # <<>>)
          => (p \in DOMAIN repos' /\ repos'[p].Password = repos[p].Password)]_vars

\* C11: VerifyAccess(path, password) is true exactly when no Guard covers the
\* path, or a covering Guard has no password, or password is the one a
\* covering Guard was protected with.
C11_VerifyAccessExact ==
    \A p \in Paths, pw \in Passwords :
        VerifyAccess(repos, p, pw) =
            {\/ Covering(repos, p) = {}
             \/ \E g \in Covering(repos, p) :
                   repos[g].plain = PwEmpty \/ repos[g].plain = pw}

\* The vault a new process would load from the files: names, flags, active name
Reloaded(fs) ==
    LET ok == {n \in Names : fs[n].st = "ok"}
    IN  [names |-> ok,
         flags |-> [n \in ok |-> fs[n].IsDefault],
         current |-> LastOf({n \in ok : fs[n].IsDefault})]

\* C12: when Add, Remove or Switch returns success, the persisted records hold
\* the names and IsDefault flags of the in-memory vault, and a reload has the
\* same active identity.
C12_SuccessMeansPersisted ==
    [][(vlast'.op \in {"Add", "Remove", "Switch"} /\ vlast'.ret = "ok")
       => /\ Reloaded(files').names = DOMAIN accounts'
          /\ \A n \in DOMAIN accounts' :
                Reloaded(files').flags[n] = accounts'[n].IsDefault
          /\ Reloaded(files').current = current']_vars

\* C13: with an elapsed-time trigger of D seconds, a poll calls w.push() only
\* if the time since the last successful publish (since NewWatcher, before
\* the first one) is >= D seconds and the poll observed a pending commit.
C13_TimeTriggerNeedsWork ==
    \A D \in 0..(Len(Digits) - 1) :
        (wcfg.thresholdType = ThresholdTime /\ wcfg.thresholdValue = <<Digits[D + 1], "s">>)
        => \A i \in DOMAIN pollLog :
              pollLog[i].attempted
              => /\ pollLog[i].elapsed >= D * Second
                 /\ ~pollLog[i].err
                 /\ pollLog[i].count > 0

\* C13's case: a time trigger whose duration has elapsed on a poll that finds
\* nothing pending (no push), and on a later poll that finds work (push)
C13_Witness ==
    /\ wcfg.thresholdType = ThresholdTime
    /\ wcfg.thresholdValue = <<"2", "s">>
    /\ Len(pollLog) >= 2
    /\ pollLog[1].elapsed >= 2 * Second /\ pollLog[1].count = 0 /\ ~pollLog[1].attempted
    /\ pollLog[2].count > 0 /\ pollLog[2].attempted

\* C14: a publish that fails or is blocked by protection fires OnError and
\* leaves Start in its loop; Start returns only once the context is cancelled.
C14_FailedPublishNotFatal ==
    /\ (wlast.failed \/ wlast.blocked) => wlast.cb = "OnError"
    /\ wpc \in {"done", "returned"} => ctxDone

\* C14's case: after a failed publish Start has taken the next tick
C14_Witness ==
    /\ wlast.failed
    /\ wlast.cb = "OnError"
    /\ wpc = "tick"
    /\ ~ctxDone

\* C20: OnCheck fires on every poll.
C20_OnCheckEveryPoll ==
    \A i \in DOMAIN pollLog : pollLog[i].checked

\* C15: Add with a name that exists fails and leaves the accounts (their
\* tokens and flags), the active name and the files as they were.
C15_DuplicateAddChangesNothing ==
    [][(vlast'.op = "Add" /\ vlast'.name \in DOMAIN accounts)
       => /\ vlast'.ret = "exists"
          /\ accounts' = accounts
          /\ current' = current
          /\ files' = files]_vars

\* C15's case: an Add was refused for a name that exists
C15_Witness ==
    /\ vlast.op = "Add"
    /\ vlast.ret = "exists"
    /\ vlast.name \in DOMAIN accounts
    /\ Cardinality(DOMAIN accounts) >= 2

\* C16: decrypt(encrypt(s)) = s for every s under the machine's key, and
\* GetPAT of an account added on this machine returns the secret Add was
\* given, trimmed.
C16_RoundTrip ==
    LET key == encryptionKey(machine)
    IN  /\ \A str \in Plaintexts, nonce \in Nonces :
              decrypt(key, encrypt(key, nonce, str)) = [ok |-> TRUE, val |-> str]
        /\ (/\ vlast.op = "GetPAT"
            /\ vlast.name \in DOMAIN accounts
            /\ accounts[vlast.name].sealedBy = key)
           => /\ vlast.ret = "ok"
              /\ vlast.val = TrimSpace(accounts[vlast.name].secret)

\* C16's case: Add was given " t\n" and GetPAT returned "t"
C16_Witness ==
    /\ vlast.op = "GetPAT"
    /\ vlast.name \in DOMAIN accounts
    /\ accounts[vlast.name].secret = <<" ", "t", "\n">>
    /\ vlast.ret = "ok"
    /\ vlast.val = <<"t">>

\* C17: decrypt, and GetPAT, of a token that was damaged or that was made
\* under another key fail; neither yields a text.
C17_BadTokenFails ==
    (/\ cx.op \in {"decrypt", "GetPAT"}
     /\ ~cx.intact \/ cx.sealedBy # encryptionKey(machine))
    => (~cx.ok /\ cx.val = <<>>)

\* C17's case: GetPAT refused a token made under another machine's key
C17_Witness ==
    /\ cx.op = "GetPAT"
    /\ cx.intact
    /\ cx.sealedBy # encryptionKey(machine)
    /\ ~cx.ok

\* A goroutine is inside a registry method: past its Lock / RLock and not
\* yet past the deferred Unlock / RUnlock
InSection(t) == thr[t].pc \in {"locked", "done"}

\* C18: while a goroutine is inside Protect, Unprotect or UpdateLastAccessed
\* (from its Lock to its deferred Unlock, the map update and the save of the
\* document included), no other goroutine is inside any registry method,
\* mutating or reading; readers are free to be inside together.
C18_MutationsExclusive ==
    \A t \in Goroutines :
        (InSection(t) /\ thr[t].op \in Writers) =>
            /\ mu.w = t
            /\ \A u \in Goroutines \ {t} : ~InSection(u)

\* A goroutine has run the body of a mutating method and still holds the
\* lock, while another one has called a method and waits for the lock
C18_Witness ==
    \E t, u \in Goroutines :
        /\ thr[t].pc = "done" /\ thr[t].op \in Writers
        /\ thr[u].pc = "call"

\* Two goroutines are inside reading methods at the same time
C18_ReadersOverlap ==
    \E t, u \in Goroutines :
        /\ t # u
        /\ InSection(t) /\ thr[t].op \in Readers
        /\ InSection(u) /\ thr[u].op \in Readers


\* The calls of c1 and then c2, each run alone from the vault as it was,
\* end in the vault as it is with the results the two goroutines hold
SerialOrder(c1, c2) ==
    \E r1 \in RunAlone(before, Entered(gor[c1])) :
        /\ Returned(r1.g) = Returned(gor[c1])
        /\ \E r2 \in RunAlone(r1.s, Entered(gor[c2])) :
              /\ Returned(r2.g) = Returned(gor[c2])
              /\ r2.s = Shared(accounts, current, files)

\* C19: once the foreground's call and the watcher's call have both
\* returned, their results and the vault they leave are those of running the
\* two calls one after the other, in one order or the other.
C19_VaultCallsLinearized ==
    (\A c \in Callers : gor[c].pc = "returned") =>
        \/ SerialOrder("foreground", "watcher")
        \/ SerialOrder("watcher", "foreground")

\* The last poll made no publish attempt
LastPollIdle == pollLog # <<>> /\ ~pollLog[Len(pollLog)].attempted

\* C21: a poll on which no trigger condition was met (no publish attempt
\* follows) fires OnSkipped, whatever the trigger kind and also when nothing
\* is pending.
C21_OnSkippedEveryIdlePoll == LastPollIdle => wlast.cb = "OnSkipped"

\* The watcher's thresholdValue parses for its thresholdType
ValueParses(cfg) ==
    CASE cfg.thresholdType = ThresholdCommits -> Atoi(cfg.thresholdValue).ok
      [] cfg.thresholdType = ThresholdTime -> ParseDuration(cfg.thresholdValue).ok
      [] cfg.thresholdType = ThresholdSize -> SizeParts(cfg.thresholdValue).value.ok
      [] OTHER -> FALSE

\* C22: a watcher whose trigger value does not parse for its kind is
\* rejected: it never runs and never makes a publish attempt.
C22_UnparsedValueRejected ==
    ~ValueParses(wcfg) =>
        /\ wpc = "new"
        /\ \A i \in DOMAIN pollLog : ~pollLog[i].attempted

\* C30: no poll that observed nothing pending (a pending-commit count of 0,
\* or an unpushed size of 0 for the size trigger) makes a publish attempt,
\* whatever the trigger kind and value.
C30_NoPublishWhenNothingPending ==
    \A i \in DOMAIN pollLog :
        pollLog[i].attempted =>
            IF wcfg.thresholdType = ThresholdSize THEN pollLog[i].size > 0
            ELSE pollLog[i].count > 0

\* An int64 as a wide number, sign extended
Widen(x) == x \o (IF IsNeg64(x) THEN <<Limb - 1, Limb - 1>> ELSE <<0, 0>>)

\* C23: for a decimal integer n followed by nothing, KB, MB or GB, ParseSize
\* returns n, n * 1024, n * 1024^2 or n * 1024^3; "2MB" gives 2,097,152 and
\* "1024" gives 1024.
C23_SizeParses ==
    /\ \A n \in SizeNumbers, k \in 0..Len(SizeSuffixes) :
          sz.input = n \o (IF k = 0 THEN <<>> ELSE SizeSuffixes[k].suffix)
          => Widen(sz.val) = Times1024(ParseWide(n, Wide), k)
    /\ sz.input = <<"2", "M", "B">> => sz.val = Int64(2097152)
    /\ sz.input = <<"1", "0", "2", "4">> => sz.val = Int64(1024)

\* What a caller can tell an error's kind by: its type and its code
Kind(e) == [type |-> e.type, code |-> e.code]

\* The kinds of the errors a failed remote operation produces
FailedKinds == {Kind(GitError(text)) : text \in GitMessages}

\* C24: the error unprotect returns for a wrong password and the error
\* OnError receives on a poll blocked by protection are of another kind than
\* the error of a failed remote operation.
C24_AuthorizationErrorsDistinct ==
    /\ Kind(NewError(ErrGitProtected)) \notin FailedKinds
    /\ wlast.blocked => Kind(wlast.err) \notin FailedKinds

\* The watcher was started by the README's command for this kind and value
Documented(kind, type, value) ==
    wenv.args = ReadmeCommand(kind, value) =>
        /\ wcfg.thresholdType = type
        /\ wcfg.thresholdValue = value

\* C25: arngit watch --threshold commits --value 5 runs a commit-count
\* watcher with threshold 5 (no poll with fewer than 5 pending commits
\* publishes), --threshold time --value 10m an elapsed-time watcher of 10m and
\* --threshold size --value 2MB a change-size watcher of 2MB.
C25_WatchFlags ==
    /\ Documented(<<"c", "o", "m", "m", "i", "t", "s">>, ThresholdCommits, <<"5">>)
    /\ Documented(<<"t", "i", "m", "e">>, ThresholdTime, <<"1", "0", "m">>)
    /\ Documented(<<"s", "i", "z", "e">>, ThresholdSize, <<"2", "M", "B">>)
    /\ wenv.args = ReadmeCommand(<<"c", "o", "m", "m", "i", "t", "s">>, <<"5">>)
       => \A i \in DOMAIN pollLog : pollLog[i].attempted => pollLog[i].count >= 5

\* C26: a publish attempt begins only in the evaluation of a poll, one per
\* poll; when it returns, failed or not, the loop is back at its select (no
\* second attempt without a new tick); and w.lastPushTime changes only in the
\* return of a publish that succeeded.
C26_OneAttemptPerPoll ==
    [][/\ (wpc' = "pushing" /\ wpc # "pushing")
          => (wpc = "tick" /\ Len(pollLog') = Len(pollLog) + 1)
       /\ (wpc = "pushing" /\ wpc' # "pushing") => wpc' = "select"
       /\ (wlast'.blocked /\ pollLog' # pollLog) => wpc' = "select"
       /\ lastPushTime' # lastPushTime
          => (wpc = "pushing" /\ wlast'.cb = "OnPush" /\ ~wlast'.failed /\ ~wlast'.blocked)
      ]_vars

\* A first publish succeeded, a later one failed, and w.lastPushTime is
\* still that of the first
C26_Witness ==
    /\ wlast.failed
    /\ Len(pollLog) >= 2
    /\ lastPushTime > 0
    /\ lastPushTime < clock

\* C27: a Protect or Unprotect that returns an error leaves pm.repos as it
\* was, and after every registry operation the persisted document holds
\* exactly the Guards of pm.repos.
C27_ErrorLeavesRegistry ==
    [][/\ (rlast'.op \in {"Protect", "Unprotect"} /\ rlast'.ret # "ok") => repos' = repos
       /\ doc' = DocOf(repos')
      ]_vars

\* C28: Current returns nil only when the vault holds no account, and
\* otherwise an account of the vault whose IsDefault is true, after any
\* Add / Remove / Switch and after a load.
C28_CurrentIsDefault ==
    LET c == AccountManager_Current(accounts, current)
    IN  /\ c = NoName <=> DOMAIN accounts = {}
        /\ c # NoName => c \in DOMAIN accounts /\ accounts[c].IsDefault

\* C29: for the registry as it stands, every path has at most one Guard that
\* GetProtection can return, and every path and password exactly one verdict
\* that VerifyAccess can return.
C29_LookupDeterministic ==
    \A absPath \in Paths :
        /\ Cardinality(GetProtection(repos, absPath)) <= 1
        /\ \A password \in Passwords :
              Cardinality(VerifyAccess(repos, absPath, password)) = 1

====
